---------------------------- MODULE Spec2Model ----------------------------
(***************************************************************************)
(* A model of the S3agle attachment pipeline (turnercore/s3agle):          *)
(*   - saveFileToVault, the local-tree adapter       (SpecVault)           *)
(*   - getEagleFolderId / findFolderInTree            (SpecFolder)         *)
(*   - pasteHandler / processFile, the orchestrator   (Spec)               *)
(* Strings are sequences of one-character strings, so that the regular     *)
(* expression of incrementFileName and String.split are computed, not      *)
(* assumed.                                                                *)
(***************************************************************************)
EXTENDS Integers, Sequences, FiniteSets, TLC

VARIABLES
    \* ---- saveFileToVault (src/src/vault/saveFileToVault.ts)
    disk,        \* app.vault.adapter: file name in the upload folder -> its bytes
    indexed,     \* names for which app.vault.getAbstractFileByPath returns a TFile
    folderOk,    \* the upload folder exists on disk
    vpc,         \* position of the running call
    vfile,       \* the File argument of the running call: [name, data]
    fileName,    \* local variable fileName
    fileExists,  \* local variable fileExists
    tried,       \* history: the candidate names of the running call, in order
    iters,       \* history: iterations of the while loop of the running call
    wrote,       \* history: createBinary stored bytes during the running call
    disk0,       \* history: disk when the running call started
    ncalls,      \* history: calls started
    results,     \* history: the records of the last two finished calls
    \* ---- getEagleFolderId (src/src/eagle/getEagleFolderId.ts)
    snapshot,    \* the folder tree the Eagle server holds: Folder[]
    fpc,         \* position of the running resolution
    freq,        \* its arguments: [folderPath, createPathIfNotExist]
    fetched,     \* the folder list request answered with status "success"
    pending,     \* the findFolderInTree invocation suspended on createEagleFolder
    createCalls, \* history: the createEagleFolder calls issued, in order
    createdIds,  \* history: the ids the server returned for them, in order
    fresult,     \* what findFolderInTree resolved to: <<>> or <<Folder>>
    \* ---- pasteHandler / processFile (src/src/main.ts, src/src/processFile.ts)
    settings,    \* this.settings: the fields the pipeline reads
    fm,          \* the frontmatter of the active note
    ev,          \* the paste / drop event handed to pasteHandler
    doc,         \* editor.getValue(): the text of the note
    cursor,      \* editor.getCursor(): an offset into doc
    notices,     \* the texts shown with new Notice, in order
    proc,        \* per file of the event: the suspended processFile call
    frozen,      \* the event loop is held by a loop that never yields
    \* ---- generateFilePreview / wrapFileDependingOnType (src/src/processFile.ts)
    rin,         \* the arguments: [file, s3Url, eagleUrl, vaultUrl]
    rcall,       \* the function applied and the location it was given
    rout,        \* the text it returned
    \* ---- uploadToEagle (src/src/eagle/uploadToEagle.ts)
    epc,         \* position of the running call
    ecall,       \* its arguments and the folder id it resolved: [fileUrl, fileName, folderId]
    eadd,        \* the request sent to the add-item endpoint: <<>> or <<[endpoint, data]>>
    elookups,    \* history: the getEagleItemId queries issued, in order
    eresult,     \* how the call ended: [threw, value]
    \* ---- hashNameIfNeeded / hashString (src/src/helpers.ts)
    hname,       \* the file name handed to hashNameIfNeeded
    hseeds,      \* settings.hashSeed at the first and at the second call
    hout,        \* what the two calls returned: <<>> or <<first, second>>
    \* ---- uploadAllFiles (src/src/commands/downloadAllFiles.ts, lines 73-232)
    upc,         \* position of the running command
    urefs,       \* the file references extractLocalFileLinks found in the note, in order
    ucalls,      \* history: the processFile calls started: [ref, list, state]
    unotices,    \* the notices the command showed
    \* ---- downloadAllFiles (src/src/commands/downloadAllFiles.ts, lines 15-57)
    dpc,         \* position of the running command
    dnote,       \* the text of the active note
    dcontent,    \* noteContent: the text read at line 19
    dqueue,      \* the URLs of uniqueUrls the loop has not visited yet
    dmap,        \* urlToLocal, in insertion order: [url, localPath]
    dfile,       \* the bytes downloaded for the URL at the head of dqueue
    dvault,      \* the upload folder: path -> bytes
    dsaved,      \* history: per visited S3 URL, what became of it: [url, ret]
    dedits,      \* history: the texts other handlers wrote to the note meanwhile
    dnotices     \* the notices the command showed

vaultVars == <<disk, indexed, folderOk, vpc, vfile, fileName, fileExists,
               tried, iters, wrote, disk0, ncalls, results>>

folderVars == <<snapshot, fpc, freq, fetched, pending, createCalls, createdIds,
                fresult>>

orchVars == <<settings, fm, ev, doc, cursor, notices, proc, frozen>>

renderVars == <<rin, rcall, rout>>

eagleVars == <<epc, ecall, eadd, elookups, eresult>>

hashVars == <<hname, hseeds, hout>>

uploadVars == <<upc, urefs, ucalls, unotices>>

downloadVars == <<dpc, dnote, dcontent, dqueue, dmap, dfile, dvault, dsaved, dedits, dnotices>>

vars == <<vaultVars, folderVars, orchVars, renderVars,
         eagleVars,
         hashVars,
         uploadVars,
         downloadVars>>

-----------------------------------------------------------------------------
(* Bounds *)

MaxEntries  == 2    \* files in the upload folder before the first call
NumContents == 2    \* distinct byte contents
MaxCalls    == 2    \* calls of saveFileToVault in one behaviour
MaxIters    == 5    \* iterations of the while loop that are followed
MaxFolders  == 3    \* folders in the Eagle library
MaxDepth    == 3    \* depth of the Eagle folder tree
MaxFiles    == 1    \* files of one paste or drop event
MaxBatch    == 2    \* files of one event handled together (SpecBatch)
MaxItems    == 2    \* items in the answer to an Eagle item list query
MaxNameLen  == 4    \* characters of a file name that is hashed
MaxRefs     == 2    \* file references in the note of the upload-all command
MaxLinks    == 2    \* links in the note of the download-all command
MaxEdits    == 1    \* edits of the note by other handlers during the command

-----------------------------------------------------------------------------
(* Each specification runs one component; the others stay as constructed *)

NoFile == [name |-> <<>>, data |-> 0]

NoPending == [folderName |-> <<>>, parentId |-> <<>>, folders |-> <<>>,
              pathParts |-> <<>>]

NoRequest == [folderPath |-> <<>>, createPathIfNotExist |-> FALSE]

VaultIdle ==
    /\ disk = <<>> /\ indexed = {} /\ folderOk = TRUE /\ vpc = "idle"
    /\ vfile = NoFile /\ fileName = <<>> /\ fileExists = FALSE /\ tried = <<>>
    /\ iters = 0 /\ wrote = FALSE /\ disk0 = <<>> /\ ncalls = 0
    /\ results = <<>>

FolderIdle ==
    /\ snapshot = <<>> /\ fpc = "idle" /\ freq = NoRequest /\ fetched = FALSE
    /\ pending = NoPending /\ createCalls = <<>> /\ createdIds = <<>>
    /\ fresult = <<>>

NoEvent == [type |-> "none", defaultPrevented |-> FALSE, noteFile |-> FALSE,
            activeEditor |-> FALSE, files |-> <<>>, preventDefault |-> FALSE]

\* DEFAULT_SETTINGS, restricted to the fields the pipeline reads
DEFAULT_SETTINGS ==
    [uploadOnDrag |-> TRUE, useEagle |-> TRUE, useS3 |-> TRUE,
     useVault |-> FALSE, localUpload |-> FALSE, hashFileName |-> FALSE,
     hashSeed |-> 0, useGoogleDocsViewer |-> TRUE,
     useMicrosoftOfficeViewer |-> TRUE]

NoFrontmatter == [S3agleLocalOnly |-> FALSE, S3eagleUploadOnDrag |-> "absent"]

OrchIdle ==
    /\ settings = DEFAULT_SETTINGS /\ fm = NoFrontmatter /\ ev = NoEvent
    /\ doc = <<>> /\ cursor = 0 /\ notices = <<>> /\ proc = <<>>
    /\ frozen = FALSE

NoArguments == [file |-> [name |-> <<>>, type |-> <<>>], s3Url |-> <<>>,
                eagleUrl |-> <<>>, vaultUrl |-> <<>>]

NoCall == [fn |-> "none", location |-> <<>>]

RenderIdle == rin = NoArguments /\ rcall = NoCall /\ rout = <<>>

NoUpload == [fileUrl |-> <<>>, fileName |-> <<>>, folderId |-> <<>>]

NoResult == [threw |-> FALSE, value |-> <<>>]

DownloadIdle ==
    /\ dpc = "idle" /\ dnote = <<>> /\ dcontent = <<>> /\ dqueue = <<>>
    /\ dmap = <<>> /\ dfile = 0 /\ dvault = <<>> /\ dsaved = <<>>
    /\ dedits = <<>> /\ dnotices = <<>>

UploadIdle ==
    upc = "idle" /\ urefs = <<>> /\ ucalls = <<>> /\ unotices = <<>>

HashIdle == hname = <<>> /\ hseeds = <<0, 0>> /\ hout = <<>>

EagleIdle ==
    /\ epc = "idle"
    /\ ecall = NoUpload
    /\ eadd = <<>>
    /\ elookups = <<>>
    /\ eresult = NoResult

VaultFrame == UNCHANGED <<folderVars, orchVars, renderVars, eagleVars, hashVars, uploadVars, downloadVars>>

FolderFrame == UNCHANGED <<vaultVars, orchVars, renderVars, eagleVars, hashVars, uploadVars, downloadVars>>

OrchFrame == UNCHANGED <<vaultVars, folderVars, renderVars, eagleVars, hashVars, uploadVars, downloadVars>>

RenderFrame == UNCHANGED <<vaultVars, folderVars, eagleVars, hashVars, uploadVars, downloadVars>>

EagleFrame == UNCHANGED <<vaultVars, folderVars, orchVars, renderVars, hashVars, uploadVars, downloadVars>>

HashFrame == UNCHANGED <<vaultVars, folderVars, orchVars, renderVars, eagleVars, uploadVars, downloadVars>>

UploadFrame == UNCHANGED <<vaultVars, folderVars, orchVars, renderVars, eagleVars, hashVars, downloadVars>>

DownloadFrame == UNCHANGED <<vaultVars, folderVars, orchVars, renderVars, eagleVars, hashVars, uploadVars>>

-----------------------------------------------------------------------------
(* Strings *)

Digits == <<"0", "1", "2", "3", "4", "5", "6", "7", "8", "9">>

IsDigit(c) == \E i \in 1..10 : Digits[i] = c

DigitValue(c) == (CHOOSE i \in 1..10 : Digits[i] = c) - 1

\* s.slice(from - 1): the characters of s from position `from` on
Slice(s, from) == IF from > Len(s) THEN <<>> ELSE SubSeq(s, from, Len(s))

\* parseInt of a run of decimal digits
RECURSIVE parseInt(_)
parseInt(ds) ==
    IF ds = <<>> THEN 0
    ELSE 10 * parseInt(SubSeq(ds, 1, Len(ds) - 1)) + DigitValue(ds[Len(ds)])

\* Number.prototype.toString of a non-negative integer
RECURSIVE toString(_)
toString(n) ==
    IF n < 10 THEN <<Digits[n + 1]>>
    ELSE toString(n \div 10) \o <<Digits[(n % 10) + 1]>>


-----------------------------------------------------------------------------
(* incrementFileName: fileName.match(/(.*?)(\d+)?(\.[^.]*$|$)/)            *)

\* length of the run of digits of s that starts at position `from`
RECURSIVE DigitRun(_, _)
DigitRun(s, from) ==
    IF from > Len(s) \/ ~IsDigit(s[from]) THEN 0 ELSE 1 + DigitRun(s, from + 1)

\* the third group, (\.[^.]*$|$), matches all of t
TailMatches(t) ==
    \/ t = <<>>
    \/ t[1] = "." /\ \A j \in 2..Len(t) : t[j] # "."

\* the lengths the optional group (\d+)? may take after a first group of length b
DigitChoices(s, b) ==
    {k \in 0..DigitRun(s, b + 1) : TailMatches(Slice(s, b + k + 1))}

\* the match: the lazy first group is the shortest that lets the rest match,
\* the greedy second group the longest one
nameParts(s) ==
    LET b == CHOOSE x \in 0..Len(s) :
                 /\ DigitChoices(s, x) # {}
                 /\ \A y \in 0..(x - 1) : DigitChoices(s, y) = {}
        k == CHOOSE x \in DigitChoices(s, b) : \A y \in DigitChoices(s, b) : y <= x
    IN  [baseName |-> SubSeq(s, 1, b),
         digits   |-> SubSeq(s, b + 1, b + k),
         ext      |-> Slice(s, b + k + 1)]

\* an increment that ignores the number the name already carries
incrementFileName_restart(s) ==
    LET parts == nameParts(s)
    IN  parts.baseName \o toString(2) \o parts.ext

\* lines 64-71
incrementFileName(s) ==
    LET parts == nameParts(s)
        num   == IF parts.digits # <<>> THEN parseInt(parts.digits) + 1 ELSE 2
    IN  parts.baseName \o toString(num) \o parts.ext

\* the number a candidate name carries before its extension (0: none)
SuffixOf(s) ==
    LET parts == nameParts(s)
    IN  IF parts.digits # <<>> THEN parseInt(parts.digits) ELSE 0

-----------------------------------------------------------------------------
(* saveFileToVault *)

FolderPath == <<"F">>

FilePath(name) == FolderPath \o <<"/">> \o name

NoPath == <<>>      \* the empty string returned when createBinary fails

hashFileData(data) == <<"sha256", data>>

\* a comparison that takes every existing file for another one
sameContent_never(existingFileData, data) == FALSE

\* line 31: existingFileHash === newFileHash
sameContent(existingFileData, data) ==
    hashFileData(existingFileData) = hashFileData(data)

Bytes == 1..NumContents

InputNames ==
    { <<"a", ".", "p">>, <<"0", "9">> }

\* name, incrementFileName(name), ... : the first k + 1 candidates
RECURSIVE Chain(_, _)
Chain(name, k) ==
    IF k = 0 THEN {name} ELSE {name} \cup Chain(incrementFileName(name), k - 1)

\* app.vault.adapter.exists(filePath)
exists(d, path) == path \in DOMAIN d

\* app.vault.getAbstractFileByPath(filePath) returns a TFile
getAbstractFileByPath(idx, path) == path \in idx

\* the call returns ret (or rejects): it is recorded and the adapter is idle again
EndCall(file, ret, threw, notice, w) ==
    /\ results' = Append(IF Len(results) = 2 THEN Tail(results) ELSE results,
                         [name |-> file.name, data |-> file.data, ret |-> ret,
                          threw |-> threw, notice |-> notice, wrote |-> w])
    /\ vpc' = "idle"

InitVault ==
    /\ \E name \in InputNames :
         \E S \in SUBSET Chain(name, MaxEntries) :
           /\ Cardinality(S) <= MaxEntries
           /\ disk \in [{FilePath(n) : n \in S} -> Bytes]
           /\ indexed \in SUBSET {FilePath(n) : n \in S}
    /\ folderOk \in BOOLEAN
    /\ (~folderOk => disk = <<>>)
    /\ vpc = "idle"
    /\ vfile = NoFile
    /\ fileName = <<>>
    /\ fileExists = FALSE
    /\ tried = <<>>
    /\ iters = 0
    /\ wrote = FALSE
    /\ disk0 = disk
    /\ ncalls = 0
    /\ results = <<>>
    /\ FolderIdle
    /\ OrchIdle
    /\ RenderIdle
    /\ EagleIdle
    /\ HashIdle
    /\ UploadIdle
    /\ DownloadIdle

\* lines 10-21: the folder exists or createFolder makes it; first existence check.
\* Calls after the first store under the name of the first; contents are only
\* compared for equality, so the first call stores content 1.
VaultStart(name, data) ==
    /\ vpc = "idle"
    /\ ncalls < MaxCalls
    /\ ncalls' = ncalls + 1
    /\ results # <<>> => name = results[1].name
    /\ results = <<>> => data = 1
    /\ vfile' = [name |-> name, data |-> data]
    /\ fileName' = name
    /\ folderOk' = TRUE
    /\ fileExists' = exists(disk, FilePath(name))
    /\ tried' = <<name>>
    /\ iters' = 0
    /\ wrote' = FALSE
    /\ disk0' = disk
    /\ vpc' = "loop"
    /\ UNCHANGED <<disk, indexed, results>>
    /\ VaultFrame

\* line 17: createFolder rejects; nothing catches it inside saveFileToVault
VaultFolderFails(name, data) ==
    /\ vpc = "idle"
    /\ ncalls < MaxCalls
    /\ ncalls' = ncalls + 1
    /\ results # <<>> => name = results[1].name
    /\ results = <<>> => data = 1
    /\ ~folderOk
    /\ vfile' = [name |-> name, data |-> data]
    /\ fileName' = name
    /\ tried' = <<name>>
    /\ iters' = 0
    /\ wrote' = FALSE
    /\ disk0' = disk
    /\ EndCall([name |-> name, data |-> data], NoPath, TRUE, "none", FALSE)
    /\ UNCHANGED <<disk, indexed, folderOk, fileExists>>
    /\ VaultFrame

\* lines 25-33: the entry is a TFile with the same hash: link to it
VaultLoopSame ==
    /\ vpc = "loop"
    /\ fileExists
    /\ getAbstractFileByPath(indexed, FilePath(fileName))
    /\ sameContent(disk[FilePath(fileName)], vfile.data)
    /\ iters' = iters + 1
    /\ EndCall(vfile, FilePath(fileName), FALSE, "exists", wrote)
    /\ UNCHANGED <<disk, indexed, folderOk, vfile, fileName, fileExists, tried,
                   wrote, disk0>>
    /\ UNCHANGED ncalls
    /\ VaultFrame

\* line 28: readBinary rejects; nothing catches it inside saveFileToVault
VaultReadFails ==
    /\ vpc = "loop"
    /\ fileExists
    /\ getAbstractFileByPath(indexed, FilePath(fileName))
    /\ iters' = iters + 1
    /\ EndCall(vfile, NoPath, TRUE, "none", wrote)
    /\ UNCHANGED <<disk, indexed, folderOk, vfile, fileName, fileExists, tried,
                   wrote, disk0>>
    /\ UNCHANGED ncalls
    /\ VaultFrame

\* lines 34-39: the entry is a TFile with another hash: next candidate name
VaultLoopIncrement ==
    /\ vpc = "loop"
    /\ fileExists
    /\ getAbstractFileByPath(indexed, FilePath(fileName))
    /\ ~sameContent(disk[FilePath(fileName)], vfile.data)
    /\ fileName' = incrementFileName(fileName)
    /\ fileExists' = exists(disk, FilePath(fileName'))
    /\ tried' = Append(tried, fileName')
    /\ iters' = iters + 1
    /\ UNCHANGED <<disk, indexed, folderOk, vpc, vfile, wrote, disk0, results>>
    /\ UNCHANGED ncalls
    /\ VaultFrame

\* lines 25-27, 40-41: the entry exists for the adapter but is no TFile of the
\* vault: the body changes nothing and the loop condition stays true
VaultLoopSpin ==
    /\ vpc = "loop"
    /\ fileExists
    /\ ~getAbstractFileByPath(indexed, FilePath(fileName))
    /\ iters < MaxIters
    /\ iters' = iters + 1
    /\ UNCHANGED <<disk, indexed, folderOk, vpc, vfile, fileName, fileExists,
                   tried, wrote, disk0, results>>
    /\ UNCHANGED ncalls
    /\ VaultFrame

\* app.vault.createBinary: rejects when the path is taken, else stores and
\* registers the TFile
createBinary(d, path, data) ==
    IF path \in DOMAIN d THEN d
    ELSE [p \in DOMAIN d \cup {path} |-> IF p = path THEN data ELSE d[p]]

\* lines 44-47: createBinary resolves, which it does only for a free path
VaultCreate ==
    /\ vpc = "loop"
    /\ ~fileExists
    /\ ~exists(disk, FilePath(fileName))
    /\ disk' = createBinary(disk, FilePath(fileName), vfile.data)
    /\ indexed' = indexed \cup {FilePath(fileName)}
    /\ wrote' = TRUE
    /\ EndCall(vfile, FilePath(fileName), FALSE, "saved", TRUE)
    /\ UNCHANGED <<folderOk, vfile, fileName, fileExists, tried, iters, disk0>>
    /\ UNCHANGED ncalls
    /\ VaultFrame

\* lines 48-52: createBinary rejects: notice, and the empty string is returned
VaultCreateFails ==
    /\ vpc = "loop"
    /\ ~fileExists
    /\ wrote' = FALSE
    /\ EndCall(vfile, NoPath, FALSE, "failed", FALSE)
    /\ UNCHANGED <<disk, indexed, folderOk, vfile, fileName, fileExists, tried,
                   iters, disk0>>
    /\ UNCHANGED ncalls
    /\ VaultFrame

NextVault ==
    \/ \E name \in InputNames, data \in Bytes : VaultStart(name, data)
    \/ \E name \in InputNames, data \in Bytes : VaultFolderFails(name, data)
    \/ VaultLoopSame
    \/ VaultReadFails
    \/ VaultLoopIncrement
    \/ VaultLoopSpin
    \/ VaultCreate
    \/ VaultCreateFails

SpecVault == InitVault /\ [][NextVault]_vars

-----------------------------------------------------------------------------
(* getEagleFolderId, findFolderInTree, createEagleFolder *)

\* folder names, in the order the server lists siblings
FolderNames == << <<"A">>, <<"B">>, <<"C">> >>

Names == {FolderNames[i] : i \in 1..Len(FolderNames)}

RootId == <<>>              \* parentId = "": the root of the library

NullId == << <<"null">> >>  \* getEagleFolderId returns null

\* the id the server gives the k-th folder it creates
NewId(k) == << <<"#">>, toString(k) >>

\* the libraries: sets of folders, each named by its chain of names from the root
RECURSIVE PathSets(_)
PathSets(k) ==
    IF k = 0 THEN {{}}
    ELSE LET prev == PathSets(k - 1)
         IN  prev \cup UNION { { S \cup {Append(p, n)} :
                                   p \in {q \in S \cup {<<>>} : Len(q) < MaxDepth},
                                   n \in Names } : S \in prev }

\* the Folder[] the server answers for the folders below `prefix`; a folder's id
\* is unique in the library, sibling names are unique
RECURSIVE Children(_, _)
Children(PS, prefix) ==
    LET present == SelectSeq(FolderNames, LAMBDA n : Append(prefix, n) \in PS)
    IN  [i \in 1..Len(present) |->
            [id       |-> Append(prefix, present[i]),
             name     |-> present[i],
             parent   |-> prefix,
             children |-> Children(PS, Append(prefix, present[i]))]]

Snapshots == {Children(PS, <<>>) : PS \in PathSets(MaxFolders)}

\* folderPath.split("/")
RECURSIVE split(_)
split(s) ==
    LET slashes == {i \in 1..Len(s) : s[i] = "/"}
    IN  IF slashes = {} THEN <<s>>
        ELSE LET i == CHOOSE x \in slashes : \A y \in slashes : x <= y
             IN  <<SubSeq(s, 1, i - 1)>> \o split(Slice(s, i + 1))

PathInputs ==
    { <<>>,
      <<"A">>,
      <<"A", "/", "B">>,
      <<"A", "/", "A">>,
      <<"A", "/", "B", "/", "C">>,
      <<"A", "/">> }

\* a search that takes the first folder whatever its name
find_first(folders, folderName) ==
    IF folders = <<>> THEN <<>> ELSE <<folders[1]>>

\* folders.find((folder) => folder.name === folderName): <<>> or <<Folder>>
find(folders, folderName) ==
    LET hits == {i \in 1..Len(folders) : folders[i].name = folderName}
    IN  IF hits = {} THEN <<>>
        ELSE <<folders[CHOOSE i \in hits : \A j \in hits : i <= j]>>

Return(value) ==
    [kind |-> "return", value |-> value, call |-> NoPending]

Await(folderName, parentId, folders, pathParts) ==
    [kind |-> "await", value |-> <<>>,
     call |-> [folderName |-> folderName, parentId |-> parentId,
               folders |-> folders, pathParts |-> pathParts]]

\* a descent that keeps the caller's parentId instead of the found folder's id
RECURSIVE findFolderInTree_keepParent(_, _, _, _)
findFolderInTree_keepParent(createPathIfNotExist, folders, pathParts, parentId) ==
    IF Len(pathParts) = 0 THEN Return(<<>>)
    ELSE
      LET folderName == pathParts[1]
          endOfTree  == Len(pathParts) = 1
          folder     == find(folders, folderName)
      IN  IF folder # <<>> /\ endOfTree THEN Return(folder)
          ELSE IF folder # <<>> /\ ~endOfTree
          THEN findFolderInTree_keepParent(createPathIfNotExist,
                                           folder[1].children,
                                           Tail(pathParts), parentId)
          ELSE IF folder = <<>> /\ createPathIfNotExist
          THEN Await(folderName, parentId, folders, pathParts)
          ELSE Return(<<>>)

\* a walk that creates a missing folder whatever createPathIfNotExist says
RECURSIVE findFolderInTree_alwaysCreate(_, _, _, _)
findFolderInTree_alwaysCreate(createPathIfNotExist, folders, pathParts, parentId) ==
    IF Len(pathParts) = 0 THEN Return(<<>>)
    ELSE
      LET folderName == pathParts[1]
          endOfTree  == Len(pathParts) = 1
          folder     == find(folders, folderName)
      IN  IF folder # <<>> /\ endOfTree THEN Return(folder)
          ELSE IF folder # <<>> /\ ~endOfTree
          THEN findFolderInTree_alwaysCreate(createPathIfNotExist,
                                             folder[1].children,
                                             Tail(pathParts), folder[1].id)
          ELSE Await(folderName, parentId, folders, pathParts)

\* lines 60-81: findFolderInTree up to its return, or up to the await of
\* createEagleFolder (line 81)
RECURSIVE findFolderInTree(_, _, _, _)
findFolderInTree(createPathIfNotExist, folders, pathParts, parentId) ==
    IF Len(pathParts) = 0 THEN Return(<<>>)
    ELSE
      LET folderName == pathParts[1]
          endOfTree  == Len(pathParts) = 1
          folder     == find(folders, folderName)
      IN  IF folder # <<>> /\ endOfTree THEN Return(folder)
          ELSE IF folder # <<>> /\ ~endOfTree
          THEN findFolderInTree(createPathIfNotExist, folder[1].children,
                                Tail(pathParts), folder[1].id)
          ELSE IF folder = <<>> /\ createPathIfNotExist
          THEN Await(folderName, parentId, folders, pathParts)
          ELSE Return(<<>>)

\* a resolution that goes on with the next segment after a creation failed
afterCreate_ignoreFailure(createPathIfNotExist, call, folderId) ==
    IF Len(call.pathParts) = 1
    THEN Return(<<>>)
    ELSE findFolderInTree(createPathIfNotExist, call.folders,
                          Tail(call.pathParts), folderId)

\* lines 83-102: findFolderInTree after createEagleFolder answered folderId
afterCreate(createPathIfNotExist, call, folderId) ==
    IF folderId # NullId
    THEN IF Len(call.pathParts) = 1
         THEN Return(<< [id |-> folderId, name |-> call.folderName,
                         parent |-> call.parentId, children |-> <<>>] >>)
         ELSE findFolderInTree(createPathIfNotExist, call.folders,
                               Tail(call.pathParts), folderId)
    ELSE Return(<<>>)

\* the resolution goes on with outcome r of findFolderInTree
Continue(r) ==
    IF r.kind = "return"
    THEN /\ fpc' = "done"
         /\ fresult' = r.value
         /\ pending' = NoPending
         /\ createCalls' = createCalls
    ELSE /\ fpc' = "createEagleFolder"
         /\ fresult' = <<>>
         /\ pending' = r.call
         /\ createCalls' = Append(createCalls,
                                  [folderName |-> r.call.folderName,
                                   parent |-> r.call.parentId])

\* getEagleFolderId's return value (line 41)
ReturnedId == IF fresult = <<>> THEN NullId ELSE fresult[1].id

InitFolder ==
    /\ snapshot \in Snapshots
    /\ fpc = "idle"
    /\ freq = NoRequest
    /\ fetched = FALSE
    /\ pending = NoPending
    /\ createCalls = <<>>
    /\ createdIds = <<>>
    /\ fresult = <<>>
    /\ VaultIdle
    /\ OrchIdle
    /\ RenderIdle
    /\ EagleIdle
    /\ HashIdle
    /\ UploadIdle
    /\ DownloadIdle

\* lines 10-41: the folder list arrives with status "success"
GetEagleFolderId(folderPath, createPathIfNotExist) ==
    /\ fpc = "idle"
    /\ freq' = [folderPath |-> folderPath,
                createPathIfNotExist |-> createPathIfNotExist]
    /\ fetched' = TRUE
    /\ Continue(findFolderInTree(createPathIfNotExist, snapshot,
                                 split(folderPath), RootId))
    /\ UNCHANGED <<snapshot, createdIds>>
    /\ FolderFrame

\* lines 42-49: the request fails or answers another status: null
GetEagleFolderIdFails(folderPath, createPathIfNotExist) ==
    /\ fpc = "idle"
    /\ freq' = [folderPath |-> folderPath,
                createPathIfNotExist |-> createPathIfNotExist]
    /\ fpc' = "done"
    /\ UNCHANGED <<snapshot, fetched, pending, createCalls, createdIds, fresult>>
    /\ FolderFrame

\* createEagleFolder lines 22-38: the server creates the folder and answers its id
CreateEagleFolder ==
    /\ fpc = "createEagleFolder"
    /\ LET folderId == NewId(Len(createdIds) + 1)
       IN  /\ createdIds' = Append(createdIds, folderId)
           /\ Continue(afterCreate(freq.createPathIfNotExist, pending, folderId))
    /\ UNCHANGED <<snapshot, freq, fetched>>
    /\ FolderFrame

\* createEagleFolder lines 27-29, 38-42: the request fails or carries no id: null
CreateEagleFolderFails ==
    /\ fpc = "createEagleFolder"
    /\ createdIds' = Append(createdIds, NullId)
    /\ Continue(afterCreate(freq.createPathIfNotExist, pending, NullId))
    /\ UNCHANGED <<snapshot, freq, fetched>>
    /\ FolderFrame

NextFolder ==
    \/ \E folderPath \in PathInputs, c \in BOOLEAN : GetEagleFolderId(folderPath, c)
    \/ \E folderPath \in PathInputs, c \in BOOLEAN :
          GetEagleFolderIdFails(folderPath, c)
    \/ CreateEagleFolder
    \/ CreateEagleFolderFails

SpecFolder == InitFolder /\ [][NextFolder]_vars

-----------------------------------------------------------------------------
(* hashString, hashNameIfNeeded (src/src/helpers.ts)                        *)

\* String.prototype.charCodeAt, for the characters of the model
charCodeAt(c) ==
    CASE IsDigit(c) -> 48 + DigitValue(c)
      [] c = "." -> 46
      [] c = "/" -> 47
      [] c = "a" -> 97
      [] c = "b" -> 98
      [] c = "d" -> 100
      [] c = "m" -> 109
      [] c = "p" -> 112

\* a ^ b on non-negative integers
RECURSIVE xor(_, _)
xor(a, b) ==
    IF a = 0 THEN b
    ELSE IF b = 0 THEN a
    ELSE 2 * xor(a \div 2, b \div 2) + ((a + b) % 2)

\* a step that multiplies by 32: the high bits of the seed are shifted out
hashStep_times32(hash, char) ==
    LET low == hash[2] * 32
    IN <<(hash[1] * 32 + low \div 65536) % 65536, xor(low % 65536, char)>>

\* A 32-bit integer is the pair <<high 16 bits, low 16 bits>>.
\* (hash * 33) ^ char: the operands of ^ are taken modulo 2^32
hashStep(hash, char) ==
    LET low == hash[2] * 33
    IN <<(hash[1] * 33 + low \div 65536) % 65536, xor(low % 65536, char)>>

RECURSIVE hashLoop(_, _)
hashLoop(hash, str) ==
    IF str = <<>> THEN hash
    ELSE hashLoop(hashStep(hash, charCodeAt(Head(str))), Tail(str))

\* (hash >>> 0).toString(): the decimal digits of the unsigned 32-bit value
RECURSIVE toString32(_)
toString32(hash) ==
    IF hash[1] = 0 /\ hash[2] < 10 THEN <<Digits[hash[2] + 1]>>
    ELSE LET rest == (hash[1] % 10) * 65536 + hash[2]
         IN toString32(<<hash[1] \div 10, rest \div 10>>)
                \o <<Digits[(rest % 10) + 1]>>

hashString(str, hashSeed) ==
    toString32(hashLoop(<<hashSeed \div 65536, hashSeed % 65536>>, str))

hashNameIfNeeded(name, hashFileName, hashSeed) ==
    IF hashFileName THEN hashString(name, hashSeed) ELSE name

-----------------------------------------------------------------------------
(* String methods on sequences *)

startsWith(s, prefix) ==
    Len(s) >= Len(prefix) /\ SubSeq(s, 1, Len(prefix)) = prefix

endsWith(s, suffix) ==
    Len(s) >= Len(suffix)
    /\ SubSeq(s, Len(s) - Len(suffix) + 1, Len(s)) = suffix

\* position of the first occurrence of pattern in s, 0 when there is none
indexOf(s, pattern) ==
    LET hits == {i \in 1..(Len(s) - Len(pattern) + 1) :
                    SubSeq(s, i, i + Len(pattern) - 1) = pattern}
    IN IF hits = {} THEN 0 ELSE CHOOSE i \in hits : \A j \in hits : i <= j

includes(s, pattern) == indexOf(s, pattern) # 0

\* String.prototype.replace with a string pattern: the first occurrence only
replace(s, pattern, replacement) ==
    LET i == indexOf(s, pattern)
    IN IF i = 0 THEN s
       ELSE SubSeq(s, 1, i - 1) \o replacement
                \o SubSeq(s, i + Len(pattern), Len(s))

\* String.prototype.split with a one-character separator
RECURSIVE splitBy(_, _)
splitBy(s, sep) ==
    LET i == indexOf(s, <<sep>>)
    IN IF i = 0 THEN <<s>>
       ELSE <<SubSeq(s, 1, i - 1)>> \o splitBy(SubSeq(s, i + 1, Len(s)), sep)

-----------------------------------------------------------------------------
(* generateFilePreview, detectFileType, wrapFileDependingOnType *)

NoLocation == <<>>      \* the empty string: no location

detectFileType(file) ==
    IF startsWith(file.type, <<"image">>) THEN "image"
    ELSE IF startsWith(file.type, <<"video">>) THEN "video"
    ELSE IF startsWith(file.type, <<"audio">>) THEN "audio"
    ELSE IF startsWith(file.type, <<"text">>) THEN "text"
    ELSE IF file.type = <<"application/pdf">> THEN "pdf"
    ELSE IF file.type
              = <<"application/vnd.openxmlformats-officedocument.wordprocessingml.document">>
            \/ file.type = <<"application/msword">> THEN "doc"
    ELSE IF includes(file.type, <<"presentation">>)
            \/ includes(file.type, <<"powerpoint">>) THEN "ppt"
    ELSE IF includes(file.type, <<"spreadsheet">>)
            \/ includes(file.type, <<"excel">>) THEN "xls"
    ELSE IF includes(file.type, <<"zip">>) THEN "zip"
    ELSE IF endsWith(file.name, <<".", "m", "d">>) THEN "md"
    ELSE "unknown"

Link(label, location) == <<"[">> \o label \o <<"](">> \o location \o <<")">>

OfficeViewer(location) ==
    <<"<iframe src='https://view.officeapps.live.com/op/embed.aspx?src=">>
        \o location \o <<"' width='100%' height='600px' frameborder='0'></iframe>">>

\* a renderer that writes an inline image whatever the scheme of the location
wrapFileDependingOnType_inline(location, type, localBase, s, name) ==
    IF type = "image" THEN <<"!">> \o Link(name, location)
    ELSE Link(name, location)

wrapFileDependingOnType(location, type, localBase, s, name) ==
    LET srcPrefix == IF localBase # <<>>
                     THEN <<"file://">> \o localBase \o <<"/">> ELSE <<>>
        isLocationEagleUri == startsWith(location, <<"eagle://">>)
    IN CASE type = "image" ->
              IF isLocationEagleUri THEN Link(name, location)
              ELSE <<"!">> \o Link(name, location)
         [] type = "video" ->
              <<"<video src=\"">> \o srcPrefix \o location \o <<"\" controls />">>
         [] type = "audio" ->
              <<"<audio src=\"">> \o srcPrefix \o location \o <<"\" controls />">>
         [] type = "pdf" ->
              IF s.useGoogleDocsViewer /\ localBase = <<>>
              THEN <<"<iframe frameborder=0 border=0 width=100% height=800 src=\"https://docs.google.com/viewer?embedded=true&url=">>
                       \o location \o <<"?raw=true\"></iframe>">>
              ELSE Link(<<"pdf">>, location)
         [] type = "ppt" ->
              IF s.useMicrosoftOfficeViewer /\ localBase = <<>>
              THEN OfficeViewer(location)
              ELSE Link(<<"ppt">>, location)
         [] type = "doc" ->
              IF s.useMicrosoftOfficeViewer /\ localBase = <<>>
              THEN OfficeViewer(location)
              ELSE Link(name, location)
         [] type = "md" ->
              IF isLocationEagleUri THEN Link(name, location)
              ELSE LET parts == splitBy(location, "/")
                       obsidianPath == splitBy(parts[Len(parts)], ".")[1]
                   IN <<"[[">> \o obsidianPath \o <<"]]">>
         [] OTHER -> Link(name, location)

ErrorWrapping == <<"ERROR WRAPPING FILE FOR FILE PREVIEW">>

\* a preview that prefers the path in the vault to the S3 URL
generateFilePreview_vaultFirst(file, s, s3Url, eagleUrl, vaultUrl) ==
    LET localBase == IF s.localUpload
                     THEN <<"file://">> \o FolderPath \o <<"/">> ELSE <<>>
    IN IF s.useVault /\ vaultUrl # NoLocation
       THEN wrapFileDependingOnType(vaultUrl, detectFileType(file), localBase, s, file.name)
       ELSE IF s.useS3 /\ s3Url # NoLocation
       THEN wrapFileDependingOnType(s3Url, detectFileType(file), localBase, s, file.name)
       ELSE IF s.useEagle /\ eagleUrl # NoLocation
       THEN wrapFileDependingOnType(eagleUrl, detectFileType(file), localBase, s, file.name)
       ELSE ErrorWrapping

generateFilePreview(file, s, s3Url, eagleUrl, vaultUrl) ==
    LET localBase == IF s.localUpload
                     THEN <<"file://">> \o FolderPath \o <<"/">> ELSE <<>>
    IN IF s.useS3 /\ s3Url # NoLocation
       THEN wrapFileDependingOnType(s3Url, detectFileType(file), localBase, s, file.name)
       ELSE IF s.useVault /\ vaultUrl # NoLocation
       THEN wrapFileDependingOnType(vaultUrl, detectFileType(file), localBase, s, file.name)
       ELSE IF s.useEagle /\ eagleUrl # NoLocation
       THEN wrapFileDependingOnType(eagleUrl, detectFileType(file), localBase, s, file.name)
       ELSE ErrorWrapping

-----------------------------------------------------------------------------
(* pasteHandler and processFile.  A step runs the code from one await to    *)
(* the next; the operators below take and return the editor, the notices    *)
(* and the suspended calls as one record w = [doc, cursor, notices, proc].  *)

Png == [name |-> <<"a">>, type |-> <<"image", "/", "png">>]

Pdf == [name |-> <<"b">>, type |-> <<"application/pdf">>]

FileSet == {Png, Pdf}

\* the lists of at most k files
FileLists(k) == UNION {[1..n -> FileSet] : n \in 0..k}

InitialDoc == <<"text">>

\* the URL uploadToS3 returns (lines 38-51)
S3Location(file) == <<"https://", "s3", "/", "bucket", "/">> \o file.name

\* the URI uploadToEagle returns (line 68)
EagleUri(file) == <<"eagle://", "item", "/">> \o file.name

\* getBaseVaultPath(app): the absolute path of the vault
BaseVaultPath == <<"/", "v">>

Uploading(name) == <<"![Uploading ">> \o name \o <<"...]">>

ErrorUploading(name) == <<"![Error uploading ">> \o name \o <<"]">>

ErrorNotice(message) == <<"S3agle: ", message>>

EagleNeedsNotice ==
    <<"S3agle: Eagle needs either local or S3 to be enabled to upload.">>

AllProcessedNotice == <<"S3agle: All files processed.">>

NewCall(file) ==
    [file |-> file, placeholder |-> <<>>, pc |-> "new", s3Url |-> NoLocation,
     eagleUrl |-> NoLocation, vaultUrl |-> NoLocation,
     eagleArg |-> NoLocation,   \* history: the fileUrl given to uploadToEagle
     called |-> {},             \* history: the adapters invoked
     rejected |-> {}]           \* history: the adapters that threw

Min(a, b) == IF a < b THEN a ELSE b

\* editor.replaceSelection with an empty selection
replaceSelection(w, text) ==
    [w EXCEPT !.doc = SubSeq(w.doc, 1, w.cursor) \o text
                          \o SubSeq(w.doc, w.cursor + 1, Len(w.doc)),
              !.cursor = w.cursor + Len(text)]

\* processFile.ts, replacePlaceholder: the cursor keeps its offset
replacePlaceholder(w, placeholder, preview) ==
    LET newValue == replace(w.doc, placeholder, preview)
    IN [w EXCEPT !.doc = newValue, !.cursor = Min(w.cursor, Len(newValue))]

\* main.ts, replaceText: the cursor is set to the start of the target
replaceText(w, target, replacement) ==
    LET ch == indexOf(w.doc, target)
    IN IF ch = 0 THEN w
       ELSE [w EXCEPT !.doc = replace(w.doc, target, replacement),
                      !.cursor = ch - 1]

\* lines 55-59: build the markup and put it in place of the placeholder
Preview(w, f) ==
    LET p == w.proc[f]
        filePreview == generateFilePreview(p.file, settings, p.s3Url,
                                           p.eagleUrl, p.vaultUrl)
    IN [replacePlaceholder(w, p.placeholder, filePreview)
           EXCEPT !.proc[f].pc = "done"]

\* a catch block that also ends the calls of the other files of the event
Catch_cancelSiblings(w, f, adapter, message) ==
    LET p == w.proc[f]
        w1 == [w EXCEPT !.notices = Append(@, ErrorNotice(message)),
                        !.proc = [g \in DOMAIN w.proc |->
                                    IF g = f
                                    THEN [w.proc[g] EXCEPT
                                             !.rejected = @ \cup {adapter},
                                             !.pc = "done"]
                                    ELSE [w.proc[g] EXCEPT !.pc = "done"]]]
    IN replacePlaceholder(w1, p.placeholder, ErrorUploading(p.file.name))

\* lines 61-65: the catch block of processFile
Catch(w, f, adapter, message) ==
    LET p == w.proc[f]
        w1 == [w EXCEPT !.notices = Append(@, ErrorNotice(message)),
                        !.proc[f].rejected = @ \cup {adapter},
                        !.proc[f].pc = "done"]
    IN replacePlaceholder(w1, p.placeholder, ErrorUploading(p.file.name))

\* lines 36, 48, 50: the source the Eagle upload reads from
eagleSource_vaultFirst(s, s3Url, vaultUrl) ==
    IF vaultUrl # NoLocation /\ s.useVault THEN "vault"
    ELSE IF s3Url # NoLocation /\ s.useS3 THEN "s3"
    ELSE "none"

\* an Eagle step that reads from S3 whether or not there is a URL
eagleSource_unconditional(s, s3Url, vaultUrl) == "s3"

eagleSource(s, s3Url, vaultUrl) ==
    IF vaultUrl # NoLocation /\ s.useVault /\ ~s.useS3 THEN "vault"
    ELSE IF s3Url # NoLocation /\ s.useS3 THEN "s3"
    ELSE "none"

\* lines 34-54
EagleStep(w, f) ==
    LET p == w.proc[f]
        source == eagleSource(settings, p.s3Url, p.vaultUrl)
        baseFilePath == IF endsWith(BaseVaultPath, <<"/">>) THEN BaseVaultPath
                        ELSE BaseVaultPath \o <<"/">>
        stripped == replace(p.vaultUrl, baseFilePath, <<>>)
        relative == IF startsWith(stripped, <<"/">>) THEN Tail(stripped)
                    ELSE stripped
    IN IF ~settings.useEagle THEN Preview(w, f)
       ELSE IF source = "vault"
       THEN [w EXCEPT !.proc[f].vaultUrl = relative,
                      !.proc[f].eagleArg = baseFilePath \o relative,
                      !.proc[f].called = @ \cup {"uploadToEagle"},
                      !.proc[f].pc = "uploadToEagle"]
       ELSE IF source = "s3"
       THEN [w EXCEPT !.proc[f].eagleArg = p.s3Url,
                      !.proc[f].called = @ \cup {"uploadToEagle"},
                      !.proc[f].pc = "uploadToEagle"]
       ELSE Preview([w EXCEPT !.notices = Append(@, EagleNeedsNotice)], f)

\* lines 30-33
VaultStep(w, f) ==
    IF settings.useVault
    THEN [w EXCEPT !.proc[f].called = @ \cup {"saveFileToVault"},
                   !.proc[f].pc = "saveFileToVault"]
    ELSE EagleStep(w, f)

\* lines 26-29
S3Step(w, f) ==
    IF settings.useS3
    THEN [w EXCEPT !.proc[f].called = @ \cup {"uploadToS3"},
                   !.proc[f].pc = "uploadToS3"]
    ELSE VaultStep(w, f)

\* a processFile that does not read S3agleLocalOnly
processFile_noLocalOnly(w, e, f) ==
    IF ~e.activeEditor THEN [w EXCEPT !.proc[f].pc = "threw"]
    ELSE IF ~e.noteFile THEN [w EXCEPT !.proc[f].pc = "done"]
    ELSE S3Step(w, f)

\* lines 9-25: processFile up to its first await
processFile(w, e, f) ==
    IF ~e.activeEditor THEN [w EXCEPT !.proc[f].pc = "threw"]
    ELSE IF ~e.noteFile THEN [w EXCEPT !.proc[f].pc = "done"]
    ELSE IF fm.S3agleLocalOnly
    THEN [w EXCEPT !.proc[f].called = @ \cup {"saveFileToVault"},
                   !.proc[f].pc = "localOnly"]
    ELSE S3Step(w, f)

\* main.ts lines 76-86: the callback of files.map, for the files from i on
RECURSIVE uploads(_, _, _)
uploads(w, e, i) ==
    IF i > Len(e.files) THEN w
    ELSE LET file == e.files[i]
             name == hashNameIfNeeded(file.name, settings.hashFileName,
                                      settings.hashSeed)
             placeholder == Uploading(name)
             w1 == replaceSelection(
                       [w EXCEPT !.proc[i].placeholder = placeholder],
                       placeholder)
         IN uploads(processFile(w1, e, i), e, i + 1)

\* main.ts lines 87-91: the catch blocks of the callbacks, run in order once
\* the handler has suspended
RECURSIVE catches(_, _)
catches(w, i) ==
    IF i > Len(w.proc) THEN w
    ELSE IF w.proc[i].pc # "threw" THEN catches(w, i + 1)
    ELSE LET p == w.proc[i]
             name == hashNameIfNeeded(p.file.name, settings.hashFileName,
                                      settings.hashSeed)
             w1 == [w EXCEPT !.notices =
                                Append(@, ErrorNotice("No active editor found.")),
                             !.proc[i].pc = "done"]
         IN catches(replaceText(w1, p.placeholder, ErrorUploading(name)),
                    i + 1)

\* main.ts lines 94-96: Promise.all(uploads).then
allProcessed(w) ==
    IF \A f \in DOMAIN w.proc : w.proc[f].pc = "done"
    THEN [w EXCEPT !.notices = Append(@, AllProcessedNotice)]
    ELSE w

World == [doc |-> doc, cursor |-> cursor, notices |-> notices, proc |-> proc]

Commit(w) ==
    /\ doc' = w.doc
    /\ cursor' = w.cursor
    /\ notices' = w.notices
    /\ proc' = w.proc

\* ev.type = "drop": line 66
dropIgnored(s, frontmatter) ==
    ~s.uploadOnDrag /\ ~(frontmatter.S3eagleUploadOnDrag = "true")

Init ==
    /\ settings \in [uploadOnDrag : BOOLEAN, useEagle : BOOLEAN,
                     useS3 : BOOLEAN, useVault : BOOLEAN,
                     localUpload : BOOLEAN, hashFileName : BOOLEAN,
                     hashSeed : {999999}, useGoogleDocsViewer : {TRUE},
                     useMicrosoftOfficeViewer : {TRUE}]
    /\ fm \in [S3agleLocalOnly : BOOLEAN,
               S3eagleUploadOnDrag : {"absent", "true", "false"}]
    /\ ev = NoEvent
    /\ doc = InitialDoc
    /\ cursor = Len(InitialDoc)
    /\ notices = <<>>
    /\ proc = <<>>
    /\ frozen = FALSE
    /\ VaultIdle
    /\ FolderIdle
    /\ RenderIdle
    /\ EagleIdle
    /\ HashIdle
    /\ UploadIdle
    /\ DownloadIdle

\* main.ts lines 47-98
PasteHandler(e) ==
    /\ ev = NoEvent
    /\ ~frozen
    /\ LET ignored == \/ e.defaultPrevented
                      \/ ~e.noteFile
                      \/ e.type = "drop" /\ dropIgnored(settings, fm)
                      \/ e.files = <<>>
       IN IF ignored
          THEN /\ ev' = e
               /\ UNCHANGED <<doc, cursor, notices, proc>>
          ELSE /\ ev' = [e EXCEPT !.preventDefault = TRUE]
               /\ Commit(allProcessed(catches(
                      uploads([World EXCEPT
                                  !.proc = [i \in 1..Len(e.files) |->
                                               NewCall(e.files[i])]],
                              e, 1), 1)))
    /\ UNCHANGED <<settings, fm, frozen>>
    /\ OrchFrame

Resume(w) ==
    /\ Commit(allProcessed(w))
    /\ UNCHANGED <<settings, fm, ev, frozen>>
    /\ OrchFrame

Suspended(f, at) == ~frozen /\ f \in DOMAIN proc /\ proc[f].pc = at

\* processFile line 28: uploadToS3 returns the URL
UploadToS3Resolves(f) ==
    /\ Suspended(f, "uploadToS3")
    /\ Resume(VaultStep([World EXCEPT !.proc[f].s3Url =
                                          S3Location(proc[f].file)], f))

\* uploadToS3 lines 6-8, 33-35: it throws
UploadToS3Rejects(f) ==
    /\ Suspended(f, "uploadToS3")
    /\ Resume(Catch(World, f, "uploadToS3", "Error uploading to S3"))

\* processFile line 32: saveFileToVault returns a path, or "" when
\* createBinary failed
SaveFileToVaultResolves(f, saved) ==
    /\ Suspended(f, "saveFileToVault")
    /\ LET vaultUrl == IF saved THEN FilePath(proc[f].file.name) ELSE NoPath
           notice == IF saved
                     THEN <<"S3agle: File saved successfully in vault">>
                     ELSE <<"S3agle: Failed to save file in vault.">>
       IN Resume(EagleStep([World EXCEPT !.proc[f].vaultUrl = vaultUrl,
                                         !.notices = Append(@, notice)], f))

\* a vault primitive of saveFileToVault throws
SaveFileToVaultRejects(f) ==
    /\ Suspended(f, "saveFileToVault") \/ Suspended(f, "localOnly")
    /\ Resume(Catch(World, f, "saveFileToVault", "vault error"))

\* saveFileToVault lines 25-41: the while loop never ends
SaveFileToVaultSpins(f) ==
    /\ Suspended(f, "saveFileToVault") \/ Suspended(f, "localOnly")
    /\ frozen' = TRUE
    /\ UNCHANGED <<settings, fm, ev, doc, cursor, notices, proc>>
    /\ OrchFrame

\* processFile line 20: the result of saveFileToVault is dropped
LocalOnlyResolves(f, saved) ==
    /\ Suspended(f, "localOnly")
    /\ LET notice == IF saved
                     THEN <<"S3agle: File saved successfully in vault">>
                     ELSE <<"S3agle: Failed to save file in vault.">>
       IN Resume([World EXCEPT !.proc[f].pc = "done",
                               !.notices = Append(@, notice)])

\* processFile lines 47, 49: uploadToEagle returns the item URI
UploadToEagleResolves(f) ==
    /\ Suspended(f, "uploadToEagle")
    /\ Resume(Preview([World EXCEPT !.proc[f].eagleUrl =
                                        EagleUri(proc[f].file)], f))

\* uploadToEagle lines 58, 66: it throws
UploadToEagleRejects(f) ==
    /\ Suspended(f, "uploadToEagle")
    /\ Resume(Catch(World, f, "uploadToEagle",
                    "Failed to upload file to Eagle."))

Events(k) ==
    [type : {"paste", "drop"}, defaultPrevented : BOOLEAN,
     noteFile : BOOLEAN, activeEditor : BOOLEAN, files : FileLists(k),
     preventDefault : {FALSE}]

Next ==
    \/ \E e \in Events(MaxFiles) : PasteHandler(e)
    \/ \E f \in 1..MaxFiles :
         \/ UploadToS3Resolves(f)
         \/ UploadToS3Rejects(f)
         \/ \E saved \in BOOLEAN : SaveFileToVaultResolves(f, saved)
         \/ SaveFileToVaultRejects(f)
         \/ SaveFileToVaultSpins(f)
         \/ \E saved \in BOOLEAN : LocalOnlyResolves(f, saved)
         \/ UploadToEagleResolves(f)
         \/ UploadToEagleRejects(f)

Spec == Init /\ [][Next]_vars

\* The event loop runs a continuation that is ready: a call that has
\* returned or thrown is resumed, unless a loop that never yields holds the
\* thread.
SpecLive == Init /\ [][Next]_vars /\ WF_vars(Next)

-----------------------------------------------------------------------------
(* Several files in one event: the same handler and continuations, started  *)
(* from a note with an active editor and a paste event.                     *)

\* two files that share a name and differ in their bytes, and a third one
BatchFiles ==
    {[name |-> <<"a">>, type |-> <<"image", "/", "png">>, data |-> 1],
     [name |-> <<"a">>, type |-> <<"image", "/", "png">>, data |-> 2],
     [name |-> <<"b">>, type |-> <<"application/pdf">>, data |-> 1]}

BatchEvents ==
    [type : {"paste"}, defaultPrevented : {FALSE}, noteFile : {TRUE},
     activeEditor : {TRUE},
     files : UNION {[1..n -> BatchFiles] : n \in 1..MaxBatch},
     preventDefault : {FALSE}]

InitBatch ==
    /\ settings \in [uploadOnDrag : {TRUE}, useEagle : BOOLEAN,
                     useS3 : BOOLEAN, useVault : BOOLEAN,
                     localUpload : {FALSE}, hashFileName : BOOLEAN,
                     hashSeed : {999999}, useGoogleDocsViewer : {TRUE},
                     useMicrosoftOfficeViewer : {TRUE}]
    /\ fm = NoFrontmatter
    /\ ev = NoEvent
    /\ doc = InitialDoc
    /\ cursor = Len(InitialDoc)
    /\ notices = <<>>
    /\ proc = <<>>
    /\ frozen = FALSE
    /\ VaultIdle
    /\ FolderIdle
    /\ RenderIdle
    /\ EagleIdle
    /\ HashIdle
    /\ UploadIdle
    /\ DownloadIdle

NextBatch ==
    \/ \E e \in BatchEvents : PasteHandler(e)
    \/ \E f \in 1..MaxBatch :
         \/ UploadToS3Resolves(f)
         \/ UploadToS3Rejects(f)
         \/ \E saved \in BOOLEAN : SaveFileToVaultResolves(f, saved)
         \/ SaveFileToVaultRejects(f)
         \/ SaveFileToVaultSpins(f)
         \/ UploadToEagleResolves(f)
         \/ UploadToEagleRejects(f)

SpecBatch == InitBatch /\ [][NextBatch]_vars

-----------------------------------------------------------------------------
(* generateFilePreview and wrapFileDependingOnType as functions of their    *)
(* arguments: one file of every category, every value of the settings they  *)
(* read, every combination of locations.                                    *)

RenderFiles ==
    {[name |-> <<"a">>, type |-> <<"image", "/", "png">>],
     [name |-> <<"a">>, type |-> <<"video", "/", "mp4">>],
     [name |-> <<"a">>, type |-> <<"audio", "/", "mpeg">>],
     [name |-> <<"a">>, type |-> <<"text", "/", "plain">>],
     [name |-> <<"b">>, type |-> <<"application/pdf">>],
     [name |-> <<"d">>, type |-> <<"application/msword">>],
     [name |-> <<"p">>,
      type |-> <<"application/vnd.openxmlformats-officedocument.",
                 "presentation", "ml.", "presentation">>],
     [name |-> <<"p">>,
      type |-> <<"application/vnd.openxmlformats-officedocument.",
                 "spreadsheet", "ml.sheet">>],
     [name |-> <<"p">>, type |-> <<"application/", "zip">>],
     [name |-> <<"a", ".", "m", "d">>, type |-> <<>>],
     [name |-> <<"a", ".", "p">>, type |-> <<>>]}

InitRender ==
    /\ settings \in [uploadOnDrag : {TRUE}, useEagle : BOOLEAN,
                     useS3 : BOOLEAN, useVault : BOOLEAN,
                     localUpload : BOOLEAN, hashFileName : {FALSE},
                     hashSeed : {0}, useGoogleDocsViewer : BOOLEAN,
                     useMicrosoftOfficeViewer : BOOLEAN]
    /\ \E file \in RenderFiles :
         rin \in [file : {file},
                  s3Url : {NoLocation, S3Location(file)},
                  eagleUrl : {NoLocation, EagleUri(file)},
                  vaultUrl : {NoLocation, FilePath(file.name)}]
    /\ rcall = NoCall
    /\ rout = <<>>
    /\ fm = NoFrontmatter /\ ev = NoEvent /\ doc = <<>> /\ cursor = 0
    /\ notices = <<>> /\ proc = <<>> /\ frozen = FALSE
    /\ VaultIdle
    /\ FolderIdle
    /\ EagleIdle
    /\ HashIdle
    /\ UploadIdle
    /\ DownloadIdle

\* processFile.ts line 58
GenerateFilePreview ==
    /\ rcall = NoCall
    /\ rcall' = [fn |-> "generateFilePreview", location |-> <<>>]
    /\ rout' = generateFilePreview(rin.file, settings, rin.s3Url,
                                   rin.eagleUrl, rin.vaultUrl)
    /\ UNCHANGED <<rin, orchVars>>
    /\ RenderFrame

\* processFile.ts lines 71, 73, 75: the renderer applied to one location
WrapFileDependingOnType(location) ==
    /\ rcall = NoCall
    /\ location # NoLocation
    /\ rcall' = [fn |-> "wrapFileDependingOnType", location |-> location]
    /\ rout' = wrapFileDependingOnType(
                   location, detectFileType(rin.file),
                   IF settings.localUpload
                   THEN <<"file://">> \o FolderPath \o <<"/">> ELSE <<>>,
                   settings, rin.file.name)
    /\ UNCHANGED <<rin, orchVars>>
    /\ RenderFrame

NextRender ==
    \/ GenerateFilePreview
    \/ \E location \in {rin.s3Url, rin.eagleUrl, rin.vaultUrl} :
          WrapFileDependingOnType(location)

SpecRender == InitRender /\ [][NextRender]_vars

-----------------------------------------------------------------------------
(* uploadToEagle and getEagleItemId.  The Eagle server is the environment:  *)
(* it answers the add-item request with a status code and a body, and the   *)
(* item list query with a status and a list of items.                       *)

\* lines 16-17: the endpoint depends on the scheme of the location
isWebUrl(fileUrl) ==
    startsWith(fileUrl, <<"http://">>) \/ startsWith(fileUrl, <<"https://">>)

eagleApiEndpoint(fileUrl) ==
    IF isWebUrl(fileUrl) THEN "addFromURL" ELSE "addFromPath"

\* lines 21-31: the body of the add-item request
requestData(fileUrl, name, folderId) ==
    IF isWebUrl(fileUrl)
    THEN [url |-> fileUrl, name |-> name, folderId |-> folderId]
    ELSE [path |-> fileUrl, name |-> name, folderId |-> folderId]

\* responseData.data of the add-item answer: absent, the text "undefined",
\* or the id of the new item
NoData == <<>>

AddItemData == {NoData, <<"undefined">>, <<"I", "1">>}

\* the items an item list query can answer with
Items == [name : {<<"a">>, <<"b">>}, id : {<<"I", "1">>, <<"I", "2">>}]

ItemLists == UNION {[1..n -> Items] : n \in 0..MaxItems}

NoItemId == <<>>    \* getEagleItemId returns null

\* a lookup that takes the first item of the answer without comparing names
getEagleItemId_firstItem(name, status, data) ==
    IF status = "success" /\ data # <<>> THEN data[1].id ELSE NoItemId

\* getEagleItemId lines 26-34: the id of the first item of that name
getEagleItemId(name, status, data) ==
    IF status = "success"
    THEN LET item == find(data, name)
         IN IF item # <<>> THEN item[1].id ELSE NoItemId
    ELSE NoItemId

\* line 64: the answer carries no id
idMissing(data) == data = NoData \/ data = <<"undefined">>

ItemUri(id) == <<"eagle://", "item", "/">> \o id

UploadFailed == <<"Failed to upload file to Eagle.">>

ItemIdFailed == <<"Failed to get Eagle item ID.">>

RequestFailed == <<"request failed">>

UploadInputs ==
    [fileUrl : {<<"https://", "s3", "/", "bucket", "/", "a">>,
                <<"/", "v", "/", "F", "/", "a">>},
     fileName : {<<"a">>, <<"b">>},
     folderId : {<<>>, <<"K">>}]

InitEagle ==
    /\ epc = "idle"
    /\ ecall \in UploadInputs
    /\ eadd = <<>>
    /\ elookups = <<>>
    /\ eresult = NoResult
    /\ VaultIdle
    /\ FolderIdle
    /\ OrchIdle
    /\ RenderIdle
    /\ HashIdle
    /\ UploadIdle
    /\ DownloadIdle

\* lines 11-53: the folder id is resolved and the add-item request is sent
UploadToEagle ==
    /\ epc = "idle"
    /\ epc' = "handle"
    /\ eadd' = <<[endpoint |-> eagleApiEndpoint(ecall.fileUrl),
                  data |-> requestData(ecall.fileUrl, ecall.fileName,
                                       ecall.folderId)]>>
    /\ UNCHANGED <<ecall, elookups, eresult>>
    /\ EagleFrame

\* line 53: the request is rejected (no connection, timeout)
HandleRejects ==
    /\ epc = "handle"
    /\ epc' = "threw"
    /\ eresult' = [threw |-> TRUE, value |-> RequestFailed]
    /\ UNCHANGED <<ecall, eadd, elookups>>
    /\ EagleFrame

\* lines 54-68: the server answers the add-item request
HandleResolves(statusCode, data) ==
    /\ epc = "handle"
    /\ IF statusCode # 200
       THEN /\ epc' = "threw"
            /\ eresult' = [threw |-> TRUE, value |-> UploadFailed]
            /\ UNCHANGED elookups
       ELSE IF idMissing(data)
       THEN /\ epc' = "getEagleItemId"
            /\ elookups' = Append(elookups,
                                  [keyword |-> ecall.fileName,
                                   folders |-> ecall.folderId])
            /\ UNCHANGED eresult
       ELSE /\ epc' = "done"
            /\ eresult' = [threw |-> FALSE, value |-> ItemUri(data)]
            /\ UNCHANGED elookups
    /\ UNCHANGED <<ecall, eadd>>
    /\ EagleFrame

\* lines 64-68 after getEagleItemId returned: id is what the lookup found
GetEagleItemIdReturns(id) ==
    /\ IF id = NoItemId
       THEN /\ epc' = "threw"
            /\ eresult' = [threw |-> TRUE, value |-> ItemIdFailed]
       ELSE /\ epc' = "done"
            /\ eresult' = [threw |-> FALSE, value |-> ItemUri(id)]
    /\ UNCHANGED <<ecall, eadd>>
    /\ EagleFrame

\* getEagleItemId lines 19-34: the server answers the item list query
ItemListResolves(status, data) ==
    /\ epc = "getEagleItemId"
    /\ elookups' = [elookups EXCEPT ![Len(elookups)] =
                       [keyword |-> @.keyword, folders |-> @.folders,
                        status |-> status, data |-> data]]
    /\ GetEagleItemIdReturns(getEagleItemId(ecall.fileName, status, data))

\* getEagleItemId lines 35-38: fetch or response.json() rejects
ItemListRejects ==
    /\ epc = "getEagleItemId"
    /\ elookups' = [elookups EXCEPT ![Len(elookups)] =
                       [keyword |-> @.keyword, folders |-> @.folders,
                        status |-> "rejected", data |-> <<>>]]
    /\ GetEagleItemIdReturns(NoItemId)

NextEagle ==
    \/ UploadToEagle
    \/ HandleRejects
    \/ \E statusCode \in {200, 500}, data \in AddItemData :
          HandleResolves(statusCode, data)
    \/ \E status \in {"success", "error"}, data \in ItemLists :
          ItemListResolves(status, data)
    \/ ItemListRejects

SpecEagle == InitEagle /\ [][NextEagle]_vars

-----------------------------------------------------------------------------
(* hashNameIfNeeded called twice on one file name, with the seed of the     *)
(* settings at each call (the seed is drawn again when the user resets it). *)

\* values of randomInt(1000000): the ends of the range, neighbours, and
\* seeds that differ in their high bits only
Seeds == {0, 1, 33, 524288, 524289, 999999}

HashedNames == UNION {[1..n -> {"a", "b"}] : n \in 0..MaxNameLen}

InitHash ==
    /\ hname \in HashedNames
    /\ hseeds \in Seeds \X Seeds
    /\ hout = <<>>
    /\ VaultIdle
    /\ FolderIdle
    /\ OrchIdle
    /\ RenderIdle
    /\ EagleIdle
    /\ UploadIdle
    /\ DownloadIdle

\* main.ts line 77, run once with each seed, hashFileName on
HashNameIfNeeded ==
    /\ hout = <<>>
    /\ hout' = <<hashNameIfNeeded(hname, TRUE, hseeds[1]),
                 hashNameIfNeeded(hname, TRUE, hseeds[2])>>
    /\ UNCHANGED <<hname, hseeds>>
    /\ HashFrame

\* the same call with hashFileName off
KeepName ==
    /\ hout = <<>>
    /\ hout' = << <<"name">>, hashNameIfNeeded(hname, FALSE, hseeds[1]) >>
    /\ UNCHANGED <<hname, hseeds>>
    /\ HashFrame

NextHash == HashNameIfNeeded \/ KeepName

SpecHash == InitHash /\ [][NextHash]_vars

-----------------------------------------------------------------------------
(* uploadAllFiles, in its two snapshots.  A processFile call is started    *)
(* when its promise is pushed; it is followed here from its start to the   *)
(* moment it settles.                                                      *)

\* a reference of the note: the path it names and whether
\* app.vault.getAbstractFileByPath(path) is a TFile when the loop reads it
References == [path : {<<"x">>, <<"y">>}, isFile : BOOLEAN]

ReferenceLists == UNION {[1..n -> References] : n \in 0..MaxRefs}

StartCall(r, list) == [ref |-> r, list |-> list, state |-> "running"]

\* lines 88-135: the calls the loop of the first snapshot starts, in order,
\* for the references from r on
RECURSIVE startedCalls(_, _, _)
startedCalls(refs, r, s) ==
    IF r > Len(refs) THEN <<>>
    ELSE (IF refs[r].isFile
          THEN (IF s.useS3 \/ s.useEagle
                THEN <<StartCall(r, "uploads")>>
                ELSE <<StartCall(r, "uploads")>>)
               \o (IF ~s.localUpload
                   THEN <<StartCall(r, "uploadsLocalFallback")>>
                   ELSE <<>>)
          ELSE <<>>)
         \o startedCalls(refs, r + 1, s)

\* lines 191-210: the calls the loop of the later snapshot starts
RECURSIVE startedCallsLater(_, _, _)
startedCallsLater(refs, r, s) ==
    IF r > Len(refs) THEN <<>>
    ELSE (IF refs[r].isFile
          THEN (IF s.useS3 \/ s.useEagle
                THEN <<StartCall(r, "uploads")>>
                ELSE IF ~s.localUpload
                THEN <<StartCall(r, "uploadsLocalFallback")>>
                ELSE <<>>)
          ELSE <<>>)
         \o startedCallsLater(refs, r + 1, s)

UploadedNotice ==
    <<"S3agle: All files processed and uploaded to S3 and/or Eagle.">>

FallbackNotice ==
    <<"S3agle: Files failed to upload to S3/Eagle. All files processed and uploaded to local storage.">>

FailedNotice ==
    <<"S3agle: Failed to upload files. Check the console for details.">>

NoReferencesNotice == <<"S3agle: No file references found.">>

InitUpload ==
    /\ settings \in [uploadOnDrag : {TRUE}, useEagle : BOOLEAN,
                     useS3 : BOOLEAN, useVault : {TRUE},
                     localUpload : BOOLEAN, hashFileName : {FALSE},
                     hashSeed : {0}, useGoogleDocsViewer : {TRUE},
                     useMicrosoftOfficeViewer : {TRUE}]
    /\ upc = "idle"
    /\ urefs \in ReferenceLists
    /\ ucalls = <<>>
    /\ unotices = <<>>
    /\ fm = NoFrontmatter /\ ev = NoEvent /\ doc = <<>> /\ cursor = 0
    /\ notices = <<>> /\ proc = <<>> /\ frozen = FALSE
    /\ VaultIdle
    /\ FolderIdle
    /\ RenderIdle
    /\ EagleIdle
    /\ HashIdle
    /\ DownloadIdle

\* lines 73-144: the first snapshot, up to the await of Promise.all(uploads)
UploadAllFiles ==
    /\ upc = "idle"
    /\ ucalls' = startedCalls(urefs, 1, settings)
    /\ upc' = "uploads"
    /\ UNCHANGED <<urefs, unotices>>
    /\ UploadFrame

\* lines 178-218: the later snapshot, up to the await of Promise.all(uploads);
\* a note without references ends at line 189 with a notice
UploadAllFilesLater ==
    /\ upc = "idle"
    /\ IF urefs = <<>>
       THEN /\ upc' = "done"
            /\ unotices' = Append(unotices, NoReferencesNotice)
            /\ UNCHANGED ucalls
       ELSE /\ ucalls' = startedCallsLater(urefs, 1, settings)
            /\ upc' = "uploads"
            /\ UNCHANGED unotices
    /\ UNCHANGED urefs
    /\ UploadFrame

\* a processFile call that was started settles
ProcessFileSettles(i, state) ==
    /\ i \in DOMAIN ucalls
    /\ ucalls[i].state = "running"
    /\ ucalls' = [ucalls EXCEPT ![i].state = state]
    /\ UNCHANGED <<upc, urefs, unotices>>
    /\ UploadFrame

Settled(list, state) ==
    {i \in DOMAIN ucalls : ucalls[i].list = list /\ ucalls[i].state = state}

\* lines 143-164 (217-231): Promise.all over a list resolves when all of its
\* calls are done and rejects when one of them is rejected
PromiseAllSettles ==
    /\ upc \in {"uploads", "uploadsLocalFallback"}
    /\ IF Settled(upc, "rejected") # {}
       THEN IF upc = "uploads" /\ ~settings.localUpload
            THEN upc' = "uploadsLocalFallback" /\ UNCHANGED unotices
            ELSE IF upc = "uploads"
            THEN upc' = "done" /\ UNCHANGED unotices
            ELSE /\ upc' = "done"
                 /\ unotices' = Append(unotices, FailedNotice)
       ELSE /\ Settled(upc, "running") = {}
            /\ upc' = "done"
            /\ unotices' = Append(unotices,
                                  IF upc = "uploads" THEN UploadedNotice
                                  ELSE FallbackNotice)
    /\ UNCHANGED <<urefs, ucalls>>
    /\ UploadFrame

NextUpload ==
    \/ UploadAllFiles
    \/ UploadAllFilesLater
    \/ \E i \in 1..(2 * MaxRefs), state \in {"done", "rejected"} :
          ProcessFileSettles(i, state)
    \/ PromiseAllSettles

SpecUpload == InitUpload /\ [][NextUpload]_vars

-----------------------------------------------------------------------------
(* downloadAllFiles.  The note is a sequence of chunks; a link is the       *)
(* chunks "[", label, "](", the chunks of the URL, ")".                     *)

\* settings.contentUrl
ContentUrl == <<"https://", "s3", "/", "bucket", "/">>

\* index of the first ")" of note after position i, 0 when there is none
closing(note, i) ==
    LET js == {j \in (i + 1)..Len(note) : note[j] = ")"}
    IN IF js = {} THEN 0 ELSE CHOOSE j \in js : \A k \in js : j <= k

\* lines 24-30: the captures of /\[.*?\]\((https?:\/\/.*?)\)/g from position
\* i on, in the order of the note
RECURSIVE linkUrls(_, _)
linkUrls(note, i) ==
    IF i >= Len(note) THEN <<>>
    ELSE IF note[i] = "](" /\ note[i + 1] \in {"http://", "https://"}
            /\ closing(note, i) # 0
    THEN <<SubSeq(note, i + 1, closing(note, i) - 1)>>
             \o linkUrls(note, closing(note, i) + 1)
    ELSE linkUrls(note, i + 1)

\* new Set: the elements in the order of their first insertion
RECURSIVE unique(_)
unique(seq) ==
    IF seq = <<>> THEN <<>>
    ELSE LET front == unique(SubSeq(seq, 1, Len(seq) - 1))
             last == seq[Len(seq)]
         IN IF \E k \in DOMAIN front : front[k] = last THEN front
            ELSE Append(front, last)

\* helpers.ts lines 179-182
normalizeUrlWithSlash(url) ==
    IF endsWith(url, <<"/">>) THEN url ELSE url \o <<"/">>

\* helpers.ts lines 184-191
isS3Url(url, contentUrl) ==
    startsWith(normalizeUrlWithSlash(url), normalizeUrlWithSlash(contentUrl))

\* helpers.ts lines 193-214: the segment after the last "/"; the names of
\* the model hold no query and no character the sanitising replaces
extractFileNameFromUrl(url) ==
    LET slashes == {i \in DOMAIN url : url[i] = "/"}
    IN IF slashes = {} THEN url
       ELSE Slice(url, (CHOOSE i \in slashes : \A j \in slashes : j <= i) + 1)

\* s.split(pattern).join(replacement): every occurrence is replaced
RECURSIVE splitJoin(_, _, _)
splitJoin(s, pattern, replacement) ==
    LET i == indexOf(s, pattern)
    IN IF i = 0 THEN s
       ELSE SubSeq(s, 1, i - 1) \o replacement
                \o splitJoin(Slice(s, i + Len(pattern)), pattern, replacement)

\* lines 49-52: urlToLocal.forEach from entry k on
RECURSIVE updatedContent(_, _, _)
updatedContent(content, map, k) ==
    IF k > Len(map) THEN content
    ELSE updatedContent(splitJoin(content, map[k].url, map[k].localPath),
                        map, k + 1)

\* saveFileToVault lines 20-41 on a folder all of whose entries are TFiles:
\* the path the bytes end at, and whether they are already there
RECURSIVE saveTarget(_, _, _)
saveTarget(d, name, data) ==
    IF ~exists(d, FilePath(name))
    THEN [path |-> FilePath(name), present |-> FALSE]
    ELSE IF sameContent(d[FilePath(name)], data)
    THEN [path |-> FilePath(name), present |-> TRUE]
    ELSE saveTarget(d, incrementFileName(name), data)

NoteLink(label, url) == <<"[", label, "](">> \o url \o <<")">>

LinkUrls ==
    {ContentUrl \o <<"a", ".", "p">>,
     ContentUrl \o <<"k", "/", "a", ".", "p">>,
     <<"https://", "x", "/", "a", ".", "p">>}

\* the notes: some text and at most MaxLinks links
RECURSIVE Notes(_)
Notes(k) ==
    IF k = 0 THEN {<<"text">>}
    ELSE Notes(k - 1)
           \cup {n \o NoteLink("a", u) : n \in Notes(k - 1), u \in LinkUrls}

DownloadFailedNotice(url) == <<"S3agle: Failed to download file: ">> \o url

LinksUpdatedNotice ==
    <<"S3agle: All links have been updated to local paths.">>

\* what a paste writes to the note while the command is suspended
EditText == <<"![Uploading ", "b", "...]">>

InitDownload ==
    /\ dpc = "idle"
    /\ dnote \in Notes(MaxLinks)
    /\ dcontent = <<>>
    /\ dqueue = <<>>
    /\ dmap = <<>>
    /\ dfile = 0
    /\ dvault \in {<<>>} \cup [{FilePath(<<"a", ".", "p">>)} -> Bytes]
    /\ dsaved = <<>>
    /\ dedits = <<>>
    /\ dnotices = <<>>
    /\ VaultIdle
    /\ FolderIdle
    /\ OrchIdle
    /\ RenderIdle
    /\ EagleIdle
    /\ HashIdle
    /\ UploadIdle

\* lines 33-35: the URLs that are not S3 URLs are passed over
RECURSIVE skipOthers(_)
skipOthers(queue) ==
    IF queue = <<>> THEN <<>>
    ELSE IF isS3Url(Head(queue), ContentUrl) THEN queue
    ELSE skipOthers(Tail(queue))

\* the loop goes on with the URLs of queue; when none is left, lines 48-56:
\* the content read at line 19 is rewritten and written to the note
LoopFrom(queue, content, map, shown) ==
    LET rest == skipOthers(queue)
    IN /\ dqueue' = rest
       /\ dmap' = map
       /\ dfile' = 0
       /\ dcontent' = content
       /\ IF rest # <<>>
          THEN /\ dpc' = "downloadFileFromS3"
               /\ dnote' = dnote
               /\ dnotices' = shown
          ELSE /\ dpc' = "done"
               /\ dnote' = updatedContent(content, map, 1)
               /\ dnotices' = Append(shown, LinksUpdatedNotice)

\* lines 15-38: the note is read and the first download is started
DownloadAllFiles ==
    /\ dpc = "idle"
    /\ LoopFrom(unique(linkUrls(dnote, 1)), dnote, <<>>, dnotices)
    /\ UNCHANGED <<dvault, dsaved, dedits>>
    /\ DownloadFrame

\* line 38: the bytes arrive
DownloadFileFromS3Resolves(data) ==
    /\ dpc = "downloadFileFromS3"
    /\ dpc' = "saveFileToVault"
    /\ dfile' = data
    /\ UNCHANGED <<dnote, dcontent, dqueue, dmap, dvault, dsaved, dedits,
                   dnotices>>
    /\ DownloadFrame

\* lines 38-45: the download or a vault primitive of saveFileToVault throws;
\* the URL gets no entry in urlToLocal
DownloadThrows ==
    /\ dpc \in {"downloadFileFromS3", "saveFileToVault"}
    /\ dsaved' = Append(dsaved, [url |-> Head(dqueue), ret |-> <<"threw">>])
    /\ LoopFrom(Tail(dqueue), dcontent, dmap,
                Append(dnotices, DownloadFailedNotice(Head(dqueue))))
    /\ UNCHANGED <<dvault, dedits>>
    /\ DownloadFrame

\* lines 36-41: saveFileToVault returns (the path it stored or found the
\* bytes at, or "" when createBinary failed); its result is dropped and
\* localPath is entered for the URL
SaveFileToVaultReturns(created) ==
    /\ dpc = "saveFileToVault"
    /\ LET url == Head(dqueue)
           name == extractFileNameFromUrl(url)
           localPath == FolderPath \o <<"/">> \o name
           target == saveTarget(dvault, name, dfile)
           ret == IF target.present \/ created THEN target.path ELSE NoPath
       IN /\ dvault' = IF ~target.present /\ created
                       THEN [q \in DOMAIN dvault \cup {target.path} |->
                               IF q = target.path THEN dfile ELSE dvault[q]]
                       ELSE dvault
          /\ dsaved' = Append(dsaved, [url |-> url, ret |-> ret])
          /\ LoopFrom(Tail(dqueue), dcontent,
                      Append(dmap, [url |-> url, localPath |-> localPath]),
                      dnotices)
    /\ UNCHANGED dedits
    /\ DownloadFrame

\* processFile.ts lines 81-87, main.ts line 79: another handler writes to
\* the note while the command is suspended on a download or on a save
NoteEdited ==
    /\ dpc \in {"downloadFileFromS3", "saveFileToVault"}
    /\ Len(dedits) < MaxEdits
    /\ dnote' = dnote \o EditText
    /\ dedits' = Append(dedits, EditText)
    /\ UNCHANGED <<dpc, dcontent, dqueue, dmap, dfile, dvault, dsaved,
                   dnotices>>
    /\ DownloadFrame

NextDownload ==
    \/ DownloadAllFiles
    \/ \E data \in Bytes : DownloadFileFromS3Resolves(data)
    \/ DownloadThrows
    \/ \E created \in BOOLEAN : SaveFileToVaultReturns(created)
    \/ NoteEdited

SpecDownload == InitDownload /\ [][NextDownload]_vars

-----------------------------------------------------------------------------
(* Properties of saveFileToVault, checked under SpecVault *)

\* C5: two calls in sequence with the same name and the same bytes, of which the
\* first returned a path and the second returned: the second returns the same
\* path and createBinary stored nothing during it.
C5_Idempotent ==
    \A i \in 1..(Len(results) - 1) :
        LET first  == results[i]
            second == results[i + 1]
        IN  ( /\ first.name = second.name
              /\ first.data = second.data
              /\ first.ret # NoPath
              /\ ~second.threw )
            => (second.ret = first.ret /\ ~second.wrote)

\* C5 witness: the first call stored the bytes under a suffixed name and the
\* second call, with the same bytes, linked to that file.
C5_Witness ==
    /\ Len(results) = 2
    /\ results[1].data = results[2].data
    /\ results[1].wrote
    /\ Len(tried) >= 2
    /\ results[2].ret = results[1].ret
    /\ results[2].notice = "exists"

C7_LoopTerminates == iters <= Cardinality(DOMAIN disk)

-----------------------------------------------------------------------------
(* Properties of getEagleFolderId, checked under SpecFolder *)

requestedParts == split(freq.folderPath)

Front(s) == SubSeq(s, 1, Len(s) - 1)

\* the folder of the library whose chain of names from the root is `parts`
RECURSIVE NodeAt(_, _)
NodeAt(folders, parts) ==
    IF parts = <<>> THEN <<>>
    ELSE LET named == {i \in 1..Len(folders) : folders[i].name = parts[1]}
         IN  IF named = {} THEN <<>>
             ELSE LET f == folders[CHOOSE i \in named : TRUE]
                  IN  IF Len(parts) = 1 THEN <<f>>
                      ELSE NodeAt(f.children, Tail(parts))

\* C8: when the requested chain exists in the snapshot, the resolution returns
\* the id of its leaf and issues no createEagleFolder call, for both values of
\* createPathIfNotExist.
C8_ExistingPath ==
    (fpc # "idle" /\ fetched /\ NodeAt(snapshot, requestedParts) # <<>>)
    => /\ fpc = "done"
       /\ createCalls = <<>>
       /\ ReturnedId = NodeAt(snapshot, requestedParts)[1].id

\* C8 witness: a three-segment path that exists was resolved to its leaf with
\* createPathIfNotExist set.
C8_Witness ==
    /\ fpc = "done"
    /\ fetched
    /\ freq.createPathIfNotExist
    /\ Len(requestedParts) = 3
    /\ NodeAt(snapshot, requestedParts) # <<>>
    /\ ReturnedId = requestedParts

\* the id of the deepest existing ancestor of a path whose last segment only is
\* missing ("" for a path of one segment)
AncestorId ==
    IF Len(requestedParts) = 1 THEN RootId
    ELSE NodeAt(snapshot, Front(requestedParts))[1].id

LeafOnlyMissing ==
    /\ fpc # "idle"
    /\ fetched
    /\ freq.createPathIfNotExist
    /\ Len(requestedParts) = 1 \/ NodeAt(snapshot, Front(requestedParts)) # <<>>
    /\ NodeAt(snapshot, requestedParts) = <<>>

\* C9: all segments but the last exist and createPathIfNotExist is set: exactly
\* one createEagleFolder call is issued, for the leaf's name under the deepest
\* existing ancestor, and the node returned carries the id the call answered and
\* that ancestor's id as parent.
C9_MissingLeaf ==
    LeafOnlyMissing
    => /\ createCalls = << [folderName |-> requestedParts[Len(requestedParts)],
                           parent |-> AncestorId] >>
       /\ (fpc = "done" /\ createdIds[1] # NullId)
             => fresult = << [id |-> createdIds[1],
                              name |-> requestedParts[Len(requestedParts)],
                              parent |-> AncestorId,
                              children |-> <<>>] >>

\* C9 witness: A/B exists, C is missing below it, and the resolution of A/B/C
\* returned the folder created for C.
C9_Witness ==
    /\ LeafOnlyMissing
    /\ fpc = "done"
    /\ Len(requestedParts) = 3
    /\ fresult # <<>>
    /\ fresult[1].parent = Front(requestedParts)
    /\ fresult[1].id = NewId(1)

\* C10: a three-segment path whose first segment exists at the root and whose
\* second does not, resolved with createPathIfNotExist set and both creations
\* answered: exactly two createEagleFolder calls, (second segment, id of the
\* first) then (third segment, id answered for the second), and the node
\* returned is the one created for the third segment.
C10_TwoCreations ==
    ( /\ fpc = "done"
      /\ fetched
      /\ freq.createPathIfNotExist
      /\ Len(requestedParts) = 3
      /\ NodeAt(snapshot, SubSeq(requestedParts, 1, 1)) # <<>>
      /\ NodeAt(snapshot, SubSeq(requestedParts, 1, 2)) = <<>>
      /\ \A k \in 1..Len(createdIds) : createdIds[k] # NullId )
    => /\ Len(createCalls) = 2
       /\ Len(createdIds) = 2
       /\ createCalls[1] = [folderName |-> requestedParts[2],
                            parent |-> NodeAt(snapshot,
                                              SubSeq(requestedParts, 1, 1))[1].id]
       /\ createCalls[2] = [folderName |-> requestedParts[3],
                            parent |-> createdIds[1]]
       /\ fresult = << [id |-> createdIds[2], name |-> requestedParts[3],
                        parent |-> createdIds[1], children |-> <<>>] >>

\* C11: a segment of the requested chain is missing from the snapshot and
\* createPathIfNotExist is false: the resolution ends at once, returns null and
\* issues no createEagleFolder call.
C11_MissingNoCreate ==
    (fpc # "idle" /\ fetched /\ ~freq.createPathIfNotExist
       /\ NodeAt(snapshot, requestedParts) = <<>>)
    => /\ fpc = "done"
       /\ createCalls = <<>>
       /\ createdIds = <<>>
       /\ ReturnedId = NullId

\* C11 witness: a path of several segments whose first segment exists and
\* whose chain does not was resolved to null without createPathIfNotExist.
C11_Witness ==
    /\ fpc = "done"
    /\ fetched
    /\ ~freq.createPathIfNotExist
    /\ Len(requestedParts) >= 2
    /\ NodeAt(snapshot, SubSeq(requestedParts, 1, 1)) # <<>>
    /\ NodeAt(snapshot, requestedParts) = <<>>
    /\ createCalls = <<>>
    /\ ReturnedId = NullId

\* C12: the empty path resolves to null for both values of
\* createPathIfNotExist and no createEagleFolder call is issued for it, so no
\* folder with an empty name is created.
C12_EmptyPathNotFound ==
    (fpc # "idle" /\ fetched /\ freq.folderPath = <<>>)
    => /\ fpc = "done"
       /\ createCalls = <<>>
       /\ ReturnedId = NullId

\* no createEagleFolder call follows one that failed, and a failure ends the
\* resolution with null
C25_State ==
    /\ Len(createCalls) <= Len(requestedParts)
    /\ \A k \in DOMAIN createdIds :
         createdIds[k] = NullId
         => /\ k = Len(createCalls)
            /\ fpc = "done"
            /\ ReturnedId = NullId

\* the calls issued and the folders created are never taken back
C25_Step ==
    /\ Len(createCalls') >= Len(createCalls)
    /\ SubSeq(createCalls', 1, Len(createCalls)) = createCalls
    /\ Len(createdIds') >= Len(createdIds)
    /\ SubSeq(createdIds', 1, Len(createdIds)) = createdIds

\* C25: when a createEagleFolder call fails the resolution returns null and
\* issues no further call for the remaining segments; the folders created
\* before stay (the resolver sends nothing but creations); and the number of
\* createEagleFolder calls never exceeds the number of path segments.
C25_StopOnFailure == [](C25_State) /\ [][C25_Step]_vars

\* C25 witness: the first creation succeeded, the second failed with a
\* segment still to go, and the resolution ended with null
C25_Witness ==
    /\ fpc = "done"
    /\ createdIds = <<NewId(1), NullId>>
    /\ Len(createCalls) = 2
    /\ Len(requestedParts) > 2
    /\ ReturnedId = NullId

\* the chain of names from the root to the folder with this id: a folder of
\* the snapshot is identified by its chain, a created folder hangs under the
\* parent its createEagleFolder call named
RECURSIVE ChainOf(_)
ChainOf(id) ==
    LET made == {k \in DOMAIN createdIds : createdIds[k] = id /\ id # NullId}
    IN IF made = {} THEN id
       ELSE LET k == CHOOSE x \in made : TRUE
            IN Append(ChainOf(createCalls[k].parent), createCalls[k].folderName)

\* C26: when a resolution with createPathIfNotExist set returns an id, the
\* chain of folder names from the root to that folder is the requested path,
\* segment by segment: a segment after a created one is looked up or created
\* under the created folder only.
C26_PathFidelity ==
    (fpc = "done" /\ fetched /\ freq.createPathIfNotExist
       /\ ReturnedId # NullId)
    => ChainOf(ReturnedId) = requestedParts

-----------------------------------------------------------------------------
(* Properties of pasteHandler and processFile, checked under Spec *)

\* C1: when S3 is enabled and uploadToS3 returned a URL and Eagle is enabled,
\* uploadToEagle is given that URL and never the path in the vault, whether
\* or not saveFileToVault ran and returned a path; and once the vault step is
\* over without throwing, uploadToEagle has been called.
C1_EagleReceivesS3Url ==
    \A f \in DOMAIN proc :
        (settings.useS3 /\ settings.useEagle /\ proc[f].s3Url # NoLocation)
        => /\ "uploadToEagle" \in proc[f].called
                => /\ proc[f].eagleArg = S3Location(proc[f].file)
                   /\ ~includes(proc[f].eagleArg, FolderPath)
           /\ (proc[f].pc = "uploadToEagle"
                 \/ (proc[f].pc = "done"
                       /\ "saveFileToVault" \notin proc[f].rejected))
                => "uploadToEagle" \in proc[f].called

\* S3, the vault and Eagle are all enabled, both uploadToS3 and
\* saveFileToVault returned a location, and uploadToEagle was called
C1_Witness ==
    \E f \in DOMAIN proc :
        /\ settings.useS3 /\ settings.useEagle /\ settings.useVault
        /\ proc[f].s3Url # NoLocation
        /\ proc[f].vaultUrl # NoLocation
        /\ "uploadToEagle" \in proc[f].called
        /\ proc[f].eagleArg = proc[f].s3Url

AllDisabled ==
    /\ ~settings.useS3 /\ ~settings.useVault /\ ~settings.useEagle
    /\ ~fm.S3agleLocalOnly

Finished == ev # NoEvent /\ \A f \in DOMAIN proc : proc[f].pc = "done"

\* C2: with S3, the vault and Eagle disabled and no S3agleLocalOnly in the
\* frontmatter, once the handler has finished (the note having an active
\* editor) no adapter has been called and the text of the note is the text
\* before the event.
C2_DisabledIsNoOp ==
    (AllDisabled /\ Finished /\ ev.activeEditor)
    => /\ \A f \in DOMAIN proc : proc[f].called = {}
       /\ doc = InitialDoc

\* C3: when uploadToS3 threw and the vault is enabled, saveFileToVault is
\* still called for that file and, if it returned a path, the placeholder is
\* replaced by the markup of that path.
C3_VaultRunsAfterS3Failure ==
    \A f \in DOMAIN proc :
        (settings.useVault /\ "uploadToS3" \in proc[f].rejected
           /\ proc[f].pc = "done")
        => /\ "saveFileToVault" \in proc[f].called
           /\ proc[f].vaultUrl # NoLocation
                => includes(doc, generateFilePreview(proc[f].file, settings,
                                     NoLocation, NoLocation, proc[f].vaultUrl))

ProducedLocation(p) ==
    \/ settings.useS3 /\ p.s3Url # NoLocation
    \/ settings.useVault /\ p.vaultUrl # NoLocation

\* C4: when an enabled backend returned a location for a file, the finished
\* operation leaves the markup of that location in place of the placeholder
\* and no error marker, also when a later step (uploadToEagle) threw.
C4_FailureOnlyIfAllFailed ==
    \A f \in DOMAIN proc :
        (proc[f].pc = "done" /\ ProducedLocation(proc[f]))
        => /\ ~includes(doc, ErrorUploading(proc[f].file.name))
           /\ includes(doc, generateFilePreview(proc[f].file, settings,
                                proc[f].s3Url, proc[f].eagleUrl,
                                proc[f].vaultUrl))

\* the locations the adapters can return for a file
Locations(file) == {S3Location(file), FilePath(file.name), EagleUri(file)}

EagleSkipped ==
    {f \in DOMAIN proc :
        /\ settings.useEagle /\ ~fm.S3agleLocalOnly /\ ev.activeEditor
        /\ proc[f].pc = "done" /\ proc[f].rejected = {}
        /\ proc[f].s3Url = NoLocation /\ proc[f].vaultUrl = NoLocation}

Succeeded ==
    {f \in DOMAIN proc :
        /\ proc[f].pc = "done" /\ proc[f].rejected = {}
        /\ ~fm.S3agleLocalOnly /\ ev.activeEditor
        /\ \/ proc[f].s3Url # NoLocation
           \/ proc[f].vaultUrl # NoLocation
           \/ proc[f].eagleUrl # NoLocation}

\* the location of highest priority: S3, then the vault, then Eagle
Preferred(p) ==
    IF p.s3Url # NoLocation THEN p.s3Url
    ELSE IF p.vaultUrl # NoLocation THEN p.vaultUrl
    ELSE p.eagleUrl

LocalBase == IF settings.localUpload
             THEN <<"file://">> \o FolderPath \o <<"/">> ELSE <<>>

\* C15: a file processed with success is rendered from one location, the S3
\* URL if there is one, else the path in the vault, else the Eagle URI: the
\* note holds the markup of that location and none of the file's other
\* locations; with S3 and Eagle enabled the markup is the one of the S3 URL.
C15_PreviewPriority ==
    \A f \in Succeeded :
        LET p == proc[f]
        IN /\ includes(doc, wrapFileDependingOnType(Preferred(p),
                                detectFileType(p.file), LocalBase, settings,
                                p.file.name))
           /\ \A loc \in {p.s3Url, p.vaultUrl, p.eagleUrl} :
                  (loc # NoLocation /\ loc # Preferred(p))
                  => ~includes(doc, loc)
           /\ (settings.useS3 /\ settings.useEagle)
                  => Preferred(p) = S3Location(p.file)

\* C15 witness: the three backends returned a location and the note holds the
\* markup of the S3 URL
C15_Witness ==
    \E f \in Succeeded :
        /\ proc[f].s3Url # NoLocation
        /\ proc[f].vaultUrl # NoLocation
        /\ proc[f].eagleUrl # NoLocation
        /\ includes(doc, proc[f].s3Url)

\* the drag-upload setting in force: the frontmatter value when present, the
\* global one otherwise
EffectiveUploadOnDrag ==
    IF fm.S3eagleUploadOnDrag = "absent" THEN settings.uploadOnDrag
    ELSE fm.S3eagleUploadOnDrag = "true"

\* C16: on a drop event that carries files, the files are processed if and
\* only if the drag-upload setting in force is true, the frontmatter value
\* S3eagleUploadOnDrag taking precedence over settings.uploadOnDrag.
C16_DragOverride ==
    (ev.type = "drop" /\ ~ev.defaultPrevented /\ ev.noteFile
       /\ ev.files # <<>>)
    => ((ev.preventDefault /\ proc # <<>>) <=> EffectiveUploadOnDrag)

\* the files whose call ended with no location from any backend, some backend
\* having been called
NothingStored ==
    {f \in DOMAIN proc :
        /\ proc[f].pc = "done" /\ ev.activeEditor /\ ~fm.S3agleLocalOnly
        /\ proc[f].called # {}
        /\ proc[f].s3Url = NoLocation /\ proc[f].vaultUrl = NoLocation
        /\ proc[f].eagleUrl = NoLocation}

\* C19: when every enabled backend failed for a file, by throwing or by
\* returning the empty location, a notice was shown and the note holds the
\* error marker "![Error uploading <name>]" for it, and no other text than
\* the marker (no markup, no "ERROR WRAPPING" text).
C19_TotalFailure ==
    \A f \in NothingStored :
        /\ notices # <<>>
        /\ includes(doc, ErrorUploading(proc[f].file.name))
        /\ ~includes(doc, ErrorWrapping)

-----------------------------------------------------------------------------
(* Properties of a batch of files, checked under SpecBatch *)

\* the number of occurrences of pattern in s
Occurrences(s, pattern) ==
    Cardinality({i \in 1..(Len(s) - Len(pattern) + 1) :
                    SubSeq(s, i, i + Len(pattern) - 1) = pattern})

Failed == {f \in DOMAIN proc : proc[f].rejected # {}}

AllDone == proc # <<>> /\ \A f \in DOMAIN proc : proc[f].pc = "done"

C17_State ==
    /\ \A f \in DOMAIN proc : proc[f].pc # "new"
    /\ Cardinality({i \in 1..Len(notices) :
                       notices[i][1] = "S3agle: " /\ Len(notices[i]) = 2})
          = Cardinality(Failed)
    /\ \A f \in DOMAIN proc :
          Occurrences(doc, ErrorUploading(proc[f].file.name))
            = Cardinality({g \in Failed :
                              proc[g].file.name = proc[f].file.name})
    /\ \A g \in DOMAIN proc :
          (proc[g].pc = "done" /\ g \notin Failed)
          => includes(doc, generateFilePreview(proc[g].file, settings,
                               proc[g].s3Url, proc[g].eagleUrl,
                               proc[g].vaultUrl))
    /\ AllDone => notices[Len(notices)] = AllProcessedNotice

C17_Step ==
    proc # <<>>
    => \A f, g \in DOMAIN proc :
          (proc'[f] # proc[f] /\ proc'[g] # proc[g]) => f = g

Outcome(f) ==
    IF f \in Failed THEN ErrorUploading(proc[f].file.name)
    ELSE generateFilePreview(proc[f].file, settings, proc[f].s3Url,
                             proc[f].eagleUrl, proc[f].vaultUrl)

\* the outcomes of the files from f on, in the order of the event
RECURSIVE OutcomesFrom(_)
OutcomesFrom(f) ==
    IF f > Len(proc) THEN <<>> ELSE Outcome(f) \o OutcomesFrom(f + 1)

\* C18: the placeholders of the files of one event are pairwise distinct,
\* also for two files with the same name and different bytes, and for every
\* order of completion each file's markup or error marker stands where that
\* file's placeholder was inserted.
C18_OwnPlaceholder ==
    /\ \A f, g \in DOMAIN proc :
          f # g => proc[f].placeholder # proc[g].placeholder
    /\ AllDone => doc = InitialDoc \o OutcomesFrom(1)

-----------------------------------------------------------------------------
(* Properties of the renderer, checked under SpecRender *)

\* C20: for an image, a location that starts with eagle:// is rendered as
\* the plain link [name](location), every other location (an S3 URL, a path
\* in the vault) as the inline image ![name](location).
C20_ImageMarkup ==
    (rcall.fn = "wrapFileDependingOnType"
       /\ detectFileType(rin.file) = "image")
    => rout = IF rcall.location[1] = "eagle://"
              THEN <<"[">> \o rin.file.name \o <<"](">> \o rcall.location
                       \o <<")">>
              ELSE <<"!", "[">> \o rin.file.name \o <<"](">>
                       \o rcall.location \o <<")">>

\* C20 witness: an image rendered from its Eagle URI as a plain link
C20_Witness ==
    /\ rcall.fn = "wrapFileDependingOnType"
    /\ detectFileType(rin.file) = "image"
    /\ rcall.location = EagleUri(rin.file)
    /\ rout[1] = "["

\* the categories that have an inline viewer
ViewerTypes == {"pdf", "ppt", "doc"}

\* the text is an inline viewer: an iframe element
IsIframe(text) ==
    text # <<>> /\ text[1] \in {"<iframe frameborder=0 border=0 width=100% height=800 src=\"https://docs.google.com/viewer?embedded=true&url=",
                                "<iframe src='https://view.officeapps.live.com/op/embed.aspx?src="}

\* the text is a markdown link to the location
IsLinkTo(text, location) ==
    \E label \in {rin.file.name, <<"pdf">>, <<"ppt">>} :
        text = <<"[">> \o label \o <<"](">> \o location \o <<")">>

ViewerSetting ==
    IF detectFileType(rin.file) = "pdf" THEN settings.useGoogleDocsViewer
    ELSE settings.useMicrosoftOfficeViewer

\* the backend whose location generateFilePreview renders
RenderedBackend ==
    IF settings.useS3 /\ rin.s3Url # NoLocation THEN "s3"
    ELSE IF settings.useVault /\ rin.vaultUrl # NoLocation THEN "vault"
    ELSE IF settings.useEagle /\ rin.eagleUrl # NoLocation THEN "eagle"
    ELSE "none"

\* C22: a pdf, a slide deck or a word document rendered from a location
\* that is not an Eagle URI is an inline viewer exactly when the viewer
\* setting of its category is on and the location was produced by S3, not
\* by the vault; rendered from the path in the vault it is a link.
C22_ViewerPolicy ==
    (rcall.fn = "generateFilePreview"
       /\ detectFileType(rin.file) \in ViewerTypes
       /\ RenderedBackend \in {"s3", "vault"})
    => /\ IsIframe(rout) <=> (ViewerSetting /\ RenderedBackend = "s3")
       /\ RenderedBackend = "vault" => IsLinkTo(rout, rin.vaultUrl)

-----------------------------------------------------------------------------
(* Properties of uploadToEagle, checked under SpecEagle *)

\* the add-item request was answered with 200 and no id: a lookup was issued
Ambiguous == elookups # <<>>

\* the answer to the lookup holds an item of the name that was uploaded
LookupFound ==
    /\ elookups[1].status = "success"
    /\ \E i \in DOMAIN elookups[1].data :
          elookups[1].data[i].name = ecall.fileName

-----------------------------------------------------------------------------
(* Properties of the hashed name, checked under SpecHash *)

\* the two calls ran in hash mode
Hashed == hout # <<>> /\ hout[1] # <<"name">>

\* C24: the hashed name of a file name is the same on every call with the
\* same seed, and differs between two different seeds of the range
\* 0..999999 (the arithmetic of hashString is taken modulo 2^32).
C24_SeedDecidesName ==
    Hashed => (hout[1] = hout[2] <=> hseeds[1] = hseeds[2])

\* C24 witness: a name long enough for hash * 33 to pass 2^32, hashed with
\* two seeds that differ in bit 19 only, gives two different names
C24_Witness ==
    /\ Hashed
    /\ Len(hname) = MaxNameLen
    /\ hseeds = <<0, 524288>>
    /\ hout[1] # hout[2]

-----------------------------------------------------------------------------
(* Properties of uploadAllFiles, checked under SpecUpload *)

\* the processFile calls started for the reference r
CallsFor(r) == {i \in DOMAIN ucalls : ucalls[i].ref = r}

\* C27: once the loop of the upload-all command is over, processFile has
\* been started exactly once for every reference of the note that names a
\* file, whatever settings.localUpload and the backend flags are, and no two
\* calls for one reference run at the same time.
C27_StartedOnce ==
    upc \in {"uploads", "uploadsLocalFallback", "done"}
    => \A r \in DOMAIN urefs :
         urefs[r].isFile
         => /\ Cardinality(CallsFor(r)) = 1
            /\ Cardinality({i \in CallsFor(r) : ucalls[i].state = "running"})
                 <= 1

-----------------------------------------------------------------------------
(* Progress of processFile, checked under SpecLive *)

\* pasteHandler started processFile for the file f outside local-only mode
Handled(f) == f \in DOMAIN proc /\ ~fm.S3agleLocalOnly

\* processFile is over for f and its placeholder is no longer in the note
Resolved(f) ==
    /\ f \in DOMAIN proc
    /\ proc[f].pc \in {"done", "threw"}
    /\ ~includes(doc, proc[f].placeholder)

\* C28: every file pasteHandler hands to processFile outside local-only
\* mode is eventually processed to the end, and then its "Uploading"
\* placeholder is no longer in the note.
C28_PlaceholderResolved ==
    \A f \in 1..MaxFiles : Handled(f) ~> Resolved(f)

-----------------------------------------------------------------------------
(* Properties of downloadAllFiles, checked under SpecDownload *)

\* the URLs saveFileToVault stored or found the bytes of, with the path
Stored == {k \in DOMAIN dsaved : dsaved[k].ret \notin {NoPath, <<"threw">>}}

\* the text read at the start with, for every URL that was stored, the path
\* saveFileToVault returned in place of the URL, from entry k on
RECURSIVE Rewritten(_, _)
Rewritten(content, k) ==
    IF k > Len(dsaved) THEN content
    ELSE Rewritten(IF k \in Stored
                   THEN splitJoin(content, dsaved[k].url, dsaved[k].ret)
                   ELSE content,
                   k + 1)

\* C29: when the command is over and nothing else wrote to the note, every
\* URL that was downloaded and saved is replaced by the path saveFileToVault
\* stored or found its bytes at, also when another file holds the default
\* name, and a URL whose download or save failed is left as it was.
C29_LinksFollowStorage ==
    (dpc = "done" /\ dedits = <<>>) => dnote = Rewritten(dcontent, 1)

\* C30: what another handler wrote to the note while the command was
\* suspended is in the note after the command wrote it back.
C30_EditsKept ==
    dpc = "done" => \A k \in DOMAIN dedits : includes(dnote, dedits[k])

=============================================================================
